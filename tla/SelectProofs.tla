---------------------------- MODULE SelectProofs ----------------------------
(***************************************************************************)
(* Proofs that ImageSelect finds the most recent image, and without        *)
(* most_recent the only one, for any number of images and any filters.     *)
(***************************************************************************)
EXTENDS ImageSelect, FiniteSetTheorems, TLAPS

\* The images found are those the list holds.
Listed ==
    pc \in {"loop", "found"} =>
        /\ listing \in Seq(Found(sent))
        /\ Len(listing) > 0
        /\ \A img \in Found(sent) : \E i \in 1 .. Len(listing) : listing[i] = img

\* What the loop has seen is no newer than its best image, if it has one.
LoopInv ==
    pc = "loop" =>
        /\ next \in Nat \ {0}
        /\ bestTime \in Nat
        /\ \A i \in 1 .. Len(listing) : i < next => Date(listing[i]) <= bestTime
        /\ \/ best = NoImage /\ bestTime = 0
           \/ best # NoImage /\ best \in Found(sent) /\ bestTime = Date(best)

SelectInv ==
    /\ catalogue \in Catalogues
    /\ pc \in {"params", "query", "loop", "found", "error"}
    /\ pc \in {"params", "query"} => next = 1 /\ best = NoImage /\ bestTime = 0
    /\ Listed
    /\ LoopInv
    /\ MostRecentChosen

\* An image of a catalogue is no NoImage and has a date.
LEMMA Dated ==
  ASSUME catalogue \in Catalogues, NEW img \in DOMAIN catalogue
  PROVE  img # NoImage /\ Date(img) \in Nat
<1>1. PICK S \in SUBSET Images : catalogue \in [S -> ImageType]
  BY DEF Catalogues
<1>2. catalogue[img] \in ImageType /\ img \in Images
  BY <1>1
<1> QED
  BY <1>2, SelectAssumption DEF ImageType, Date

LEMMA InitSelect == Init => SelectInv
BY DEF Init, SelectInv, Listed, LoopInv, MostRecentChosen

\* A list of a set that is not empty.
LEMMA ListingFacts ==
  ASSUME catalogue \in Catalogues, NEW keys, Found(keys) # {},
         NEW l \in Listings(Found(keys))
  PROVE  /\ l \in Seq(Found(keys))
         /\ Len(l) > 0
         /\ \A img \in Found(keys) : \E i \in 1 .. Len(l) : l[i] = img
<1> DEFINE S == Found(keys)
<1>1. IsFiniteSet(S)
  <2>1. PICK T \in SUBSET Images : catalogue \in [T -> ImageType]
    BY DEF Catalogues
  <2>2. S \subseteq Images
    BY <2>1 DEF Found
  <2> QED
    BY <2>2, SelectAssumption, FS_Subset
<1>2. Cardinality(S) \in Nat
  BY <1>1, FS_CardinalityType
<1> HIDE DEF S
<1>3. /\ l \in [1 .. Cardinality(S) -> S]
      /\ \A img \in S : \E i \in DOMAIN l : l[i] = img
  BY DEF Listings, S
<1>4. l \in Seq(S) /\ DOMAIN l = 1 .. Len(l) /\ Len(l) = Cardinality(S)
  BY <1>2, <1>3
<1>5. PICK img \in S : TRUE
  BY DEF S
<1>6. Len(l) > 0
  BY <1>2, <1>3, <1>4, <1>5
<1> QED
  BY <1>3, <1>4, <1>6 DEF S

LEMMA ParamsKeepInv == ASSUME SelectInv, BuildParams PROVE SelectInv'
BY DEF BuildParams, SelectInv, Listed, LoopInv, MostRecentChosen, input

LEMMA QueryKeepsInv == ASSUME SelectInv, Query PROVE SelectInv'
<1> USE DEF Query, SelectInv
<1>1. CASE GiveUp
  BY <1>1 DEF GiveUp, Listed, LoopInv, MostRecentChosen, input
<1>2. CASE ~GiveUp
  <2>1. /\ UNCHANGED <<catalogue, sent, mostRecent, next, best, bestTime>>
        /\ pc' \in {"loop", "found"}
        /\ pc' = "found" => ~mostRecent
        /\ next = 1 /\ best = NoImage /\ bestTime = 0
    BY <1>2 DEF input
  <2>2. Found(sent)' = Found(sent)
    BY <2>1 DEF Found
  <2>3. /\ listing' \in Seq(Found(sent))
        /\ Len(listing') > 0
        /\ \A img \in Found(sent) : \E i \in 1 .. Len(listing') : listing'[i] = img
    BY <1>2, ListingFacts
  <2>4. Listed'
    BY <2>2, <2>3 DEF Listed
  <2>5. LoopInv' /\ MostRecentChosen'
    BY <2>1 DEF LoopInv, MostRecentChosen
  <2> QED
    BY <2>1, <2>4, <2>5
<1> QED
  BY <1>1, <1>2

\* Images found are in the catalogue, and have dates.
LEMMA FoundDated ==
  ASSUME catalogue \in Catalogues, NEW keys, NEW img \in Found(keys)
  PROVE  img # NoImage /\ Date(img) \in Nat
BY Dated DEF Found

LEMMA LookKeepsInv == ASSUME SelectInv, LookAtImage PROVE SelectInv'
<1> USE DEF LookAtImage, SelectInv
<1>1. UNCHANGED <<catalogue, sent, listing, mostRecent, pc>>
  BY DEF input
<1>2. /\ Found(sent)' = Found(sent)
      /\ \A img : Date(img)' = Date(img)
  BY <1>1 DEF Found, Date
<1>3. Listed'
  BY <1>1, <1>2 DEF Listed
<1>4. LoopInv'
  <2> DEFINE seen == listing[next]
  <2>1. next \in Nat \ {0} /\ bestTime \in Nat /\ listing \in Seq(Found(sent))
    BY DEF LoopInv, Listed
  <2>2. seen \in Found(sent)
    BY <2>1
  <2>3. seen # NoImage /\ Date(seen) \in Nat
    BY <2>2, FoundDated
  <2>4. \A i \in 1 .. Len(listing) : Date(listing[i]) \in Nat
    BY <2>1, FoundDated
  <2>5. CASE Date(seen) > bestTime
    BY <1>1, <1>2, <2>1, <2>2, <2>3, <2>4, <2>5 DEF LoopInv
  <2>6. CASE Date(seen) <= bestTime
    BY <1>1, <1>2, <2>1, <2>2, <2>3, <2>4, <2>6 DEF LoopInv
  <2> QED
    BY <2>1, <2>3, <2>5, <2>6
<1>5. MostRecentChosen'
  BY <1>1 DEF MostRecentChosen
<1> QED
  BY <1>1, <1>3, <1>4, <1>5

LEMMA ReturnKeepsInv == ASSUME SelectInv, ReturnMostRecent PROVE SelectInv'
<1> USE DEF ReturnMostRecent, SelectInv
<1>1. UNCHANGED <<catalogue, sent, listing, mostRecent>> /\ pc' = "found"
  BY DEF input
<1>2. /\ Found(sent)' = Found(sent)
      /\ \A img : Date(img)' = Date(img)
  BY <1>1 DEF Found, Date
<1>3. Listed'
  BY <1>1, <1>2 DEF Listed
<1>4. chosen' \in Found(sent) /\ \A img \in Found(sent) : Date(img) <= Date(chosen')
  <2>1. /\ listing \in Seq(Found(sent)) /\ Len(listing) > 0
        /\ \A img \in Found(sent) : \E i \in 1 .. Len(listing) : listing[i] = img
        /\ next \in Nat /\ next > Len(listing)
    BY DEF Listed, LoopInv
  <2>2. \A img \in Found(sent) : Date(img) <= bestTime
    BY <2>1 DEF LoopInv
  <2>3. CASE best = NoImage
    <3>1. chosen' = listing[1] /\ bestTime = 0
      BY <2>3 DEF LoopInv
    <3>2. chosen' \in Found(sent) /\ Date(chosen') \in Nat
      BY <2>1, <3>1, FoundDated
    <3> QED
      BY <2>2, <3>1, <3>2, FoundDated
  <2>4. CASE best # NoImage
    BY <2>2, <2>4 DEF LoopInv
  <2> QED
    BY <2>3, <2>4
<1>5. LoopInv' /\ MostRecentChosen'
  BY <1>1, <1>2, <1>4 DEF LoopInv, MostRecentChosen
<1> QED
  BY <1>1, <1>3, <1>5

LEMMA StepSelect == SelectInv /\ [Next]_vars => SelectInv'
<1> SUFFICES ASSUME SelectInv, [Next]_vars PROVE SelectInv'
  OBVIOUS
<1>1. CASE UNCHANGED vars
  BY <1>1 DEF vars, input, SelectInv, Listed, LoopInv, MostRecentChosen, Found, Date
<1> QED
  BY <1>1, ParamsKeepInv, QueryKeepsInv, LookKeepsInv, ReturnKeepsInv
     DEF Next, Finished

\* The image returned as the most recent passes the filters sent, and no
\* other that does is newer.
THEOREM MostRecentCorrect == Spec => []MostRecentChosen
<1>1. SelectInv => MostRecentChosen
  BY DEF SelectInv
<1> QED
  BY <1>1, InitSelect, StepSelect, PTL DEF Spec

(***************************************************************************)
(* Without most_recent.                                                    *)
(***************************************************************************)
ChoiceInv ==
    /\ pc \in {"query", "loop", "found"} => sent \in Sendable
    /\ pc = "loop" => mostRecent
    /\ pc = "found" /\ ~mostRecent => Found(sent) = {chosen}

\* Filters that stand for parameters of their own are all sent.
LEMMA AllSent ==
  ASSUME sent \in Sendable, filters \subseteq DOMAIN Parameter,
         \A k, l \in filters : Parameter[k] = Parameter[l] => k = l
  PROVE  sent = filters
BY DEF Sendable

LEMMA QueryKeepsChoice ==
  ASSUME SelectInv, ChoiceInv, Query PROVE ChoiceInv'
<1>1. /\ UNCHANGED <<catalogue, filters, sent, mostRecent>>
      /\ pc = "query"
      /\ pc' \in {"error", "loop", "found"}
      /\ pc' = "loop" => mostRecent
  BY DEF Query, GiveUp, input
<1>2. Sendable' = Sendable /\ Found(sent)' = Found(sent)
  BY <1>1 DEF Sendable, Found
<1>3. ASSUME pc' = "found" PROVE Found(sent) = {chosen'}
  <2>1. /\ Found(sent) # {} /\ listing' \in Listings(Found(sent))
        /\ Len(listing') = 1 /\ chosen' = listing'[1]
    BY <1>3 DEF Query, GiveUp
  <2>2. /\ listing' \in Seq(Found(sent))
        /\ \A img \in Found(sent) : \E i \in 1 .. Len(listing') : listing'[i] = img
    BY <2>1, ListingFacts DEF SelectInv
  <2>3. \A img \in Found(sent) : img = listing'[1]
    BY <2>1, <2>2
  <2>4. listing'[1] \in Found(sent)
    BY <2>1, <2>2
  <2> QED
    BY <2>1, <2>3, <2>4
<1> QED
  BY <1>1, <1>2, <1>3 DEF ChoiceInv

LEMMA StepChoice == SelectInv /\ ChoiceInv /\ [Next]_vars => ChoiceInv'
<1> SUFFICES ASSUME SelectInv, ChoiceInv, [Next]_vars PROVE ChoiceInv'
  OBVIOUS
<1>1. CASE BuildParams
  BY <1>1 DEF BuildParams, ChoiceInv, Sendable, input
<1>2. CASE LookAtImage \/ ReturnMostRecent \/ UNCHANGED vars
  <2>1. /\ UNCHANGED <<catalogue, filters, sent, mostRecent>>
        /\ UNCHANGED <<pc, chosen>> \/ (pc = "loop" /\ pc' = "found")
    BY <1>2 DEF LookAtImage, ReturnMostRecent, vars, input
  <2>2. Sendable' = Sendable /\ Found(sent)' = Found(sent)
    BY <2>1 DEF Sendable, Found
  <2> QED
    BY <2>1, <2>2 DEF ChoiceInv
<1> QED
  BY <1>1, <1>2, QueryKeepsChoice DEF Next, Finished

\* Without most_recent an image is chosen only if the user's filters leave
\* no choice, for any catalogue, provided the service knows the filters, each
\* under one key (image_filter.go:28-81).
THEOREM NoChoiceLeft == Spec => []ChoiceUnambiguous
<1>1. Init => ChoiceInv
  BY DEF Init, ChoiceInv
<1>2. ChoiceInv => ChoiceUnambiguous
  BY AllSent DEF ChoiceInv, ChoiceUnambiguous
<1> QED
  BY <1>1, <1>2, InitSelect, StepSelect, StepChoice, PTL DEF Spec
=============================================================================
