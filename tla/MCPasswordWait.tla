-------------------------- MODULE MCPasswordWait ---------------------------
(***************************************************************************)
(* PasswordWait for TLC and for the proofs, under names that can stand     *)
(* beside those of the waits.                                              *)
(***************************************************************************)
VARIABLES
    passwordPc, key, helper, err, password, commPassword, bag, stopped, cancel,
    waitDone

Password == INSTANCE PasswordWait WITH pc <- passwordPc, interrupted <- stopped

PasswordSpec == Password!Spec

PasswordTypeOK == Password!TypeOK

\* The build goes on only with the password the service gave (Run reads what
\* the helper assigned, and not before it has).
GoesOnWithPassword == Password!GoesOnWithPassword

\* Run returns though the service never gives a password.
RunEnds == Password!RunEnds

\* Whatever ended Run, the helper stops polling and is not left blocked on
\* its channel.
HelperEnds == Password!HelperEnds

\* With a key that can be read, a timeout makes the step halt with its error,
\* and nothing worse, whatever the helper does meanwhile.
TimeoutReported == Password!TimeoutReported
=============================================================================
