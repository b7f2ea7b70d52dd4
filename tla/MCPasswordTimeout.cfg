SPECIFICATION PasswordSpec
PROPERTIES
    TimeoutReported
