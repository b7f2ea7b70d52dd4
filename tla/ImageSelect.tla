---------------------------- MODULE ImageSelect -----------------------------
(***************************************************************************)
(* ImageFilterOptions.GetFilteredImage: the source image of a build, or of *)
(* the data source, found by filters.  The filters are turned into the     *)
(* parameters of one query, whose order of images is the service's.        *)
(***************************************************************************)
EXTENDS Naturals, Sequences, FiniteSets

CONSTANTS
    Images,         \* ids
    MaxDate,        \* creation dates are 1 .. MaxDate, 0 is none
    Keys,           \* keys a filter may have
    Parameter,      \* the parameter of the query each known key stands for
    NoImage

ASSUME SelectAssumption ==
    /\ IsFiniteSet(Images)
    /\ MaxDate \in Nat
    /\ DOMAIN Parameter \subseteq Keys
    /\ NoImage \notin Images

VARIABLES
    catalogue,      \* the images there are
    filters,        \* the keys the user filters by
    mostRecent,     \* d.MostRecent
    pc,
    sent,           \* the filters that reach the query
    listing,        \* the ids it answers with
    next,           \* the image the loop of mostRecentImage looks at
    best, bestTime, \* mostRecent and mostRecentTime of that loop
    chosen          \* the image returned

input == <<catalogue, filters, mostRecent>>
vars == <<input, pc, sent, listing, next, best, bestTime, chosen>>

\* matches: the filters, of those there may be, that the image passes.
ImageType == [date : 0 .. MaxDate, matches : SUBSET Keys]

Catalogues == UNION {[S -> ImageType] : S \in SUBSET Images}

Date(img) == catalogue[img].date

\* What the service has for a set of filters.
Found(keys) == {img \in DOMAIN catalogue : keys \subseteq catalogue[img].matches}

Listings(S) ==
    {l \in [1 .. Cardinality(S) -> S] : \A img \in S : \E i \in DOMAIN l : l[i] = img}

Init ==
    /\ catalogue \in Catalogues
    /\ filters \in SUBSET Keys \ {{}}
    /\ mostRecent \in BOOLEAN
    /\ pc = "params"
    /\ sent = {}
    /\ listing = <<>>
    /\ next = 1
    /\ best = NoImage
    /\ bestTime = 0
    /\ chosen = NoImage

(***************************************************************************)
(* The query.                                                              *)
(***************************************************************************)
\* Keys that stand for no parameter are dropped.  Of two that stand for the
\* same one, the last that the iteration over the map meets is sent.
Sendable ==
    {s \in SUBSET (filters \cap DOMAIN Parameter) :
        /\ \A k \in filters \cap DOMAIN Parameter :
             \E l \in s : Parameter[l] = Parameter[k]
        /\ \A k, l \in s : Parameter[k] = Parameter[l] => k = l}

BuildParams ==
    /\ pc = "params"
    /\ sent' \in Sendable
    /\ pc' = "query"
    /\ UNCHANGED <<input, listing, next, best, bestTime, chosen>>

GiveUp == pc' = "error" /\ UNCHANGED <<listing, chosen>>

\* The first of the images, however many there are.
QueryAny ==
    /\ pc = "query"
    /\ \/ GiveUp
       \/ /\ Found(sent) # {}
          /\ listing' \in Listings(Found(sent))
          /\ IF mostRecent THEN pc' = "loop" /\ UNCHANGED chosen
                           ELSE pc' = "found" /\ chosen' = listing'[1]
    /\ UNCHANGED <<input, sent, next, best, bestTime>>

\* The client or the query may fail, the answer be no list.  Several images
\* are an error unless the most recent is wanted.
Query ==
    /\ pc = "query"
    /\ \/ GiveUp
       \/ /\ Found(sent) # {}
          /\ listing' \in Listings(Found(sent))
          /\ \/ mostRecent /\ pc' = "loop" /\ UNCHANGED chosen
             \/ /\ ~mostRecent
                /\ Len(listing') = 1
                /\ pc' = "found"
                /\ chosen' = listing'[1]
    /\ UNCHANGED <<input, sent, next, best, bestTime>>

(***************************************************************************)
(* mostRecentImage.                                                        *)
(***************************************************************************)
\* The time of the best image not kept up to date.
LookAtImageForgetful ==
    /\ pc = "loop"
    /\ next <= Len(listing)
    /\ best' = IF Date(listing[next]) > bestTime THEN listing[next] ELSE best
    /\ next' = next + 1
    /\ UNCHANGED <<input, pc, sent, listing, bestTime, chosen>>

LookAtImage ==
    /\ pc = "loop"
    /\ next <= Len(listing)
    /\ \/ /\ Date(listing[next]) > bestTime
          /\ best' = listing[next]
          /\ bestTime' = Date(listing[next])
       \/ Date(listing[next]) <= bestTime /\ UNCHANGED <<best, bestTime>>
    /\ next' = next + 1
    /\ UNCHANGED <<input, pc, sent, listing, chosen>>

ReturnMostRecent ==
    /\ pc = "loop"
    /\ next > Len(listing)
    /\ chosen' = IF best = NoImage THEN listing[1] ELSE best
    /\ pc' = "found"
    /\ UNCHANGED <<input, sent, listing, next, best, bestTime>>

Finished == pc \in {"found", "error"} /\ UNCHANGED vars

Next == BuildParams \/ Query \/ LookAtImage \/ ReturnMostRecent \/ Finished

Spec == Init /\ [][Next]_vars

(***************************************************************************)
(* Properties.                                                             *)
(***************************************************************************)
\* Of the images that pass the filters sent, the one chosen as the most
\* recent is one, and none is newer, wherever in the list it stands
\* (mostRecentImage).
MostRecentChosen ==
    pc = "found" /\ mostRecent =>
        /\ chosen \in Found(sent)
        /\ \A img \in Found(sent) : Date(img) <= Date(chosen)

\* Without most_recent an image is chosen only if the user's filters leave
\* no choice, provided the service knows them all, each under one key.
ChoiceUnambiguous ==
    /\ pc = "found"
    /\ ~mostRecent
    /\ filters \subseteq DOMAIN Parameter
    /\ \A k, l \in filters : Parameter[k] = Parameter[l] => k = l
    => Found(filters) = {chosen}
=============================================================================
