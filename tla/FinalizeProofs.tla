---------------------------- MODULE FinalizeProofs ----------------------------
(***************************************************************************)
(* Theorems about finalize and resume, for any items, calls, requests and  *)
(* trees: the queue below is the queue of AgentQueue, and what the journal *)
(* says is backed by it.                                                   *)
(***************************************************************************)
EXTENDS Finalize, AgentQueueTokensProofs

\* Item i was completed with key k, or completed and then deleted.
Completed(i, k) ==
    \/ status[i] = "DONE" /\ marker[i] = k
    \/ status[i] = "REMOVED"

\* What a call knows of the item its record is about.
Backed(d) ==
    /\ d.pc \in {"item", "sync", "save"} => d.record \in Records
    /\ d.pc \in {"sync", "save"} => d.record.state # "PREPARED"
    /\ d.pc = "settle" \/ d.record.state \in {"RECONCILIATION_REQUIRED", "SYNCED"}
         => Completed(d.item, d.record.key)

\* The views were there during the claim on item i.
Viewed(i, found) == \A n \in DOMAIN found : found[n] \in seen[i][n]

\* The evidence of request k has a fingerprint of such views.
Witnessed(i, k) == \E found \in EvidenceOf[k] : \A n \in 1 .. Looks : found[n] \in seen[i][n]

\* What a call knows of the evidence, while it looks and when it is past the check.
Verified(d) ==
    /\ d.token <= issued
    /\ Len(d.found) < Looks
    /\ HoldsToken(d.item, d.token) => Viewed(d.item, d.found)
    /\ d.pc \in {"beat", "prepare", "complete"} /\ HoldsToken(d.item, d.token)
         => Witnessed(d.item, d.record.key)

\* What could be seen during a claim stays.
Grows(i) == \A n \in 1 .. Looks : seen[i][n] \subseteq seen'[i][n]

SeenTypes == [Items -> [1 .. Looks -> SUBSET Views]]

FinalizeInv ==
    /\ FinalizeTypeOK
    /\ CleanInv
    /\ SettledIsCompleted
    /\ \A i \in Claimed(claim), n \in 1 .. Looks : tree[n] \in seen[i][n]
    /\ \A c \in Calls : call[c] # NoCall => Backed(call[c]) /\ Verified(call[c])

-----------------------------------------------------------------------------
(* The queue below *)

\* A call with a token of a claim in force has a token that was handed out.
LEMMA HeldTokenIssued ==
    ASSUME CleanInv, NEW i \in Items, NEW t, HoldsToken(i, t)
    PROVE  t \in 1 .. issued
  BY DEF CleanInv, TokensSound, HoldsToken, Claimed

\* Every step is one of the queue, or leaves the queue alone.
LEMMA QueueOfStep ==
    ASSUME FinalizeTypeOK, CleanInv, FinalizeNext
    PROVE  [Next]_vars
<1> USE FinalizeNullAssumption
<1>1. ASSUME NEW c \in Calls, Beat(c) \/ CompleteItem(c)
      PROVE  [Next]_vars
  <2> DEFINE i == call[c].item
             t == call[c].token
  <2>1. i \in Items
    BY <1>1 DEF Beat, CompleteItem, At, FinalizeTypeOK, CallStates
  <2>2. \/ Heartbeat(i, t) \/ Complete(i, t) \/ OwnedCallTooLate(i, t)
        \/ UNCHANGED vars
    BY <1>1 DEF Beat, CompleteItem, Refused
  <2>3. CASE Heartbeat(i, t) \/ Complete(i, t) \/ OwnedCallTooLate(i, t)
    <3>1. HoldsToken(i, t)
      BY <2>3 DEF Heartbeat, Complete, OwnedCallTooLate, Owns
    <3>2. t \in 1 .. issued
      BY <2>1, <3>1, HeldTokenIssued
    <3> HIDE DEF i, t
    <3> QED
      BY <2>1, <2>3, <3>2 DEF Next, OwnerOperation
  <2> QED
    BY <2>2, <2>3
<1>2. ASSUME NEW c \in Calls, CallStep(c), ~ (Beat(c) \/ CompleteItem(c))
      PROVE  UNCHANGED vars
  BY <1>2 DEF CallStep, Load, ReadItem, Look, Check, Prepare, Settle, Sync, Save, QuietQueue
<1>3. ASSUME NEW c \in Calls, BeginStep(c) \/ Die(c)
      PROVE  UNCHANGED vars
  BY <1>3 DEF BeginStep, BeginFinalize, BeginResume, Die, QuietQueue
<1>4. QueueStep => Next
  BY DEF QueueStep
<1>5. Edit => UNCHANGED vars
  BY DEF Edit
<1> QED
  BY <1>1, <1>2, <1>3, <1>4, <1>5 DEF FinalizeNext

-----------------------------------------------------------------------------
(* Types *)

CallTypes == [Calls -> CallStates \cup {NoCall}]
JournalTypes == [Items -> Records \cup {NoRecord}]

\* A call under way is a record of the right type.
LEMMA UnderWay ==
    ASSUME FinalizeTypeOK, NEW c \in Calls, call[c] # NoCall
    PROVE  /\ call[c] \in CallStates
           /\ call[c].item \in Items
           /\ call[c].record \in Records \cup Drafts
           /\ call[c].record.key \in Requests
  BY DEF FinalizeTypeOK, CallStates, Records, Drafts

\* What a call can become.
LEMMA GoType ==
    ASSUME FinalizeTypeOK, NEW c \in Calls, call[c] # NoCall
    PROVE  /\ \A pc \in Steps : Go(c, pc) => call' \in CallTypes
           /\ End(c) => call' \in CallTypes
           /\ \A pc \in Steps, record \in Records : GoWith(c, pc, record) => call' \in CallTypes
<1> USE DEF CallTypes
<1>1. ASSUME NEW pc \in Steps, Go(c, pc)
      PROVE  call' \in CallTypes
  <2>1. [call[c] EXCEPT !.pc = pc] \in CallStates
    BY UnderWay DEF CallStates
  <2>2. call' = [call EXCEPT ![c] = [call[c] EXCEPT !.pc = pc]]
    BY <1>1 DEF Go
  <2> QED
    BY <2>1, <2>2 DEF FinalizeTypeOK
<1>2. ASSUME NEW pc \in Steps, NEW record \in Records, GoWith(c, pc, record)
      PROVE  call' \in CallTypes
  <2>1. [call[c] EXCEPT !.pc = pc, !.record = record] \in CallStates
    BY UnderWay DEF CallStates
  <2>2. call' = [call EXCEPT ![c] = [call[c] EXCEPT !.pc = pc, !.record = record]]
    BY <1>2 DEF GoWith
  <2> QED
    BY <2>1, <2>2 DEF FinalizeTypeOK
<1> QED
  BY <1>1, <1>2 DEF End, FinalizeTypeOK

\* A record with another state.
LEMMA RecordType ==
    ASSUME NEW record \in Records \cup Drafts, NEW state \in States
    PROVE  /\ [record EXCEPT !.state = state] \in Records
           /\ [record EXCEPT !.state = state].state = state
           /\ [record EXCEPT !.state = state].key = record.key
  BY DEF Records, Drafts

LEMMA WriteType ==
    ASSUME FinalizeTypeOK, NEW c \in Calls, call[c] # NoCall, NEW state \in States,
           Write(c, state)
    PROVE  /\ journal' \in JournalTypes
           /\ \A i \in Items : \/ journal'[i] = journal[i]
                               \/ /\ i = call[c].item /\ journal'[i] # NoRecord
                                  /\ journal'[i].key = call[c].record.key
                                  /\ journal'[i].state = state
  BY UnderWay, RecordType, FinalizeNullAssumption DEF Write, FinalizeTypeOK, JournalTypes

\* What Watch keeps for a claim.
LEMMA WatchSees ==
    ASSUME FinalizeTypeOK, tree' \in Trees, Watch
    PROVE  /\ seen' \in SeenTypes
           /\ \A i \in Items, n \in 1 .. Looks : claim'[i] # NoClaim => tree'[n] \in seen'[i][n]
           /\ \A i \in Items : claim[i] # NoClaim /\ claim'[i] # NoClaim
                /\ claim'[i].token = claim[i].token => Grows(i)
<1> DEFINE Later(i, n) == IF claim'[i] = NoClaim THEN {}
                          ELSE IF claim[i] # NoClaim /\ claim'[i].token = claim[i].token
                               THEN seen[i][n] \cup {tree'[n]} ELSE {tree'[n]}
<1>1. \A n \in 1 .. Looks : tree'[n] \in Views
  BY RequestsAssumption
<1>2. ASSUME NEW i \in Items, NEW n \in 1 .. Looks
      PROVE  seen[i][n] \in SUBSET Views
  BY DEF FinalizeTypeOK
<1>3. seen' = [i \in Items |-> [n \in 1 .. Looks |-> Later(i, n)]]
  BY DEF Watch
<1>4. ASSUME NEW i \in Items, NEW n \in 1 .. Looks
      PROVE  /\ Later(i, n) \in SUBSET Views
             /\ claim'[i] # NoClaim => tree'[n] \in Later(i, n)
             /\ claim[i] # NoClaim /\ claim'[i] # NoClaim /\ claim'[i].token = claim[i].token
                  => seen[i][n] \subseteq Later(i, n)
  BY <1>1, <1>2
<1> HIDE DEF Later
<1>5. seen' \in SeenTypes
  BY <1>3, <1>4 DEF SeenTypes
<1>6. \A i \in Items, n \in 1 .. Looks : claim'[i] # NoClaim => tree'[n] \in seen'[i][n]
  BY <1>3, <1>4
<1>7. ASSUME NEW i \in Items, claim[i] # NoClaim, claim'[i] # NoClaim,
             claim'[i].token = claim[i].token
      PROVE  Grows(i)
  BY <1>3, <1>4, <1>7 DEF Grows
<1> QED
  BY <1>5, <1>6, <1>7

-----------------------------------------------------------------------------
(* What a step does to the items that a call is not about to touch itself *)

Watched ==
    /\ Watch
    /\ tree' \in Trees
    /\ marker' \in [Items -> Requests \cup {NoRequest}]
    /\ \A i \in Items : status'[i] = status[i] => marker'[i] = marker[i]

\* A step leaves queue, markers and trees alone, or all three are observed.
LEMMA StepKinds ==
    ASSUME FinalizeTypeOK, CleanInv, FinalizeNext
    PROVE  QuietQueue \/ Watched
<1>1. ASSUME NEW c \in Calls, Beat(c)
      PROVE  Watched
  BY <1>1 DEF Beat, Refused, Watched, FinalizeTypeOK
<1>2. ASSUME NEW c \in Calls, CompleteItem(c)
      PROVE  Watched
  <2>1. call[c] # NoCall
    BY <1>2 DEF CompleteItem, At
  <2>2. CASE UNCHANGED <<marker, tree>>
    BY <1>2, <2>2 DEF CompleteItem, Watched, FinalizeTypeOK
  <2>3. CASE /\ Complete(call[c].item, call[c].token)
             /\ marker' = [marker EXCEPT ![call[c].item] = call[c].record.key]
             /\ TreeFollowsItems
    <3>1. claim[call[c].item] # NoClaim /\ status'[call[c].item] = "DONE"
      BY <2>1, <2>3, UnderWay
         DEF Complete, Owns, HoldsToken, WriteCompleted, FinalizeTypeOK, TypeOK
    <3>2. status[call[c].item] # "DONE"
      BY <2>1, <3>1, UnderWay DEF CleanInv, Closed
    <3>3. tree' \in Trees
      BY <2>3 DEF TreeFollowsItems, FinalizeTypeOK
    <3>4. marker' \in [Items -> Requests \cup {NoRequest}]
      BY <2>1, <2>3, UnderWay DEF FinalizeTypeOK
    <3> QED
      BY <1>2, <2>1, <2>3, <3>1, <3>2, <3>3, <3>4, UnderWay
         DEF CompleteItem, Watched, FinalizeTypeOK
  <2> QED
    BY <1>2, <2>2, <2>3 DEF CompleteItem, Refused
<1>3. ASSUME NEW c \in Calls, CallStep(c), ~ Beat(c), ~ CompleteItem(c)
      PROVE  QuietQueue
  BY <1>3 DEF CallStep, Load, ReadItem, Look, Check, Prepare, Settle, Sync, Save
<1>4. ASSUME NEW c \in Calls, BeginStep(c) \/ Die(c)
      PROVE  QuietQueue
  BY <1>4 DEF BeginStep, BeginFinalize, BeginResume, Die
<1>5. CASE QueueStep
  BY <1>5 DEF QueueStep, Watched, TreeFollowsItems, FinalizeTypeOK
<1>6. CASE Edit
  BY <1>6 DEF Edit, Watched, FinalizeTypeOK, vars
<1> QED
  BY <1>1, <1>2, <1>3, <1>4, <1>5, <1>6 DEF FinalizeNext

\* No step takes back a completion, or lets an old token own an item again; and
\* the views of a claim only grow.
LEMMA WorldStep ==
    ASSUME FinalizeInv, FinalizeNext
    PROVE  /\ CleanInv'
           /\ tree' \in Trees
           /\ marker' \in [Items -> Requests \cup {NoRequest}]
           /\ seen' \in SeenTypes
           /\ \A i \in Claimed(claim'), n \in 1 .. Looks : tree'[n] \in seen'[i][n]
           /\ issued' >= issued
           /\ \A i \in Items, t \in 0 .. issued :
                HoldsToken(i, t)' => HoldsToken(i, t) /\ Grows(i)
           /\ \A i \in Items, k \in Requests : Completed(i, k) => Completed(i, k)'
<1> USE DEF FinalizeInv
<1>1. [Next]_vars /\ CleanInv'
  BY QueueOfStep, CleanNext
<1>2. issued \in Nat /\ TypeOK
  BY DEF CleanInv, TypeOK
<1>3. CASE UNCHANGED vars
  <2>1. UNCHANGED <<status, claim, issued>>
    BY <1>3 DEF vars
  <2>2. CASE QuietQueue
    BY <1>1, <1>2, <2>1, <2>2
       DEF QuietQueue, FinalizeTypeOK, HoldsToken, Completed, SeenTypes, Grows
  <2>3. CASE Watched
    <3>1. /\ tree' \in Trees /\ seen' \in SeenTypes
          /\ \A i \in Items, n \in 1 .. Looks : claim'[i] # NoClaim => tree'[n] \in seen'[i][n]
          /\ \A i \in Items : claim[i] # NoClaim => Grows(i)
      BY <2>1, <2>3, WatchSees DEF Watched
    <3> QED
      BY <1>1, <1>2, <2>1, <2>3, <3>1 DEF Watched, HoldsToken, Completed, Claimed
  <2> QED
    BY <2>2, <2>3, StepKinds
<1>4. CASE Next
  <2>1. /\ issued' = issued \/ issued' = issued + 1
        /\ \A i \in Claimed(claim') :
             \/ i \in Claimed(claim) /\ claim'[i].token = claim[i].token
             \/ claim'[i].token = issued + 1
    BY <1>2, <1>4, NextEffect, ClaimOrigin
  <2>2. \A i \in Items, k \in Requests :
          (\A j \in Items : status'[j] = status[j] => marker'[j] = marker[j])
          /\ Completed(i, k) => Completed(i, k)'
    BY <1>2, <1>4, DoneStep DEF Completed, CleanInv
  <2>3. \A i \in Items, t \in 0 .. issued :
          HoldsToken(i, t)' => HoldsToken(i, t) /\ claim'[i] # NoClaim
    BY <1>2, <2>1 DEF HoldsToken, Claimed
  <2>4. CASE QuietQueue
    BY <1>3, <2>4 DEF QuietQueue
  <2>5. CASE Watched
    <3>1. /\ tree' \in Trees /\ seen' \in SeenTypes
          /\ \A i \in Items, n \in 1 .. Looks : claim'[i] # NoClaim => tree'[n] \in seen'[i][n]
          /\ \A i \in Items : claim[i] # NoClaim /\ claim'[i] # NoClaim
               /\ claim'[i].token = claim[i].token => Grows(i)
      BY <2>5, WatchSees DEF Watched
    <3>2. \A i \in Items, t \in 0 .. issued :
            HoldsToken(i, t)' => HoldsToken(i, t) /\ Grows(i)
      BY <2>3, <3>1 DEF HoldsToken
    <3> QED
      BY <1>1, <1>2, <2>1, <2>2, <2>5, <3>1, <3>2 DEF Watched, Claimed
  <2> QED
    BY <2>4, <2>5, StepKinds
<1> QED
  BY <1>1, <1>3, <1>4

-----------------------------------------------------------------------------
(* What calls know *)

\* What a call knows before a step it knows after it.
LEMMA KnownStays ==
    ASSUME FinalizeInv, FinalizeNext, NEW c \in Calls, NEW d \in CallStates,
           Backed(d), Verified(d), call'[c] = d
    PROVE  Backed(call[c])' /\ Verified(call[c])'
<1> USE DEF FinalizeInv
<1>1. d.item \in Items /\ d.record.key \in Requests /\ d.token \in Nat
  BY DEF CallStates, Records, Drafts
<1>2. Backed(call[c])'
  BY <1>1, WorldStep DEF Backed
<1>3. Verified(call[c])'
  <2>1. d.token \in 0 .. issued /\ issued \in Nat /\ issued' \in Nat
    BY <1>1, WorldStep DEF Verified, CleanInv, TypeOK
  <2>2. d.token <= issued'
    BY <2>1, WorldStep
  <2>3. HoldsToken(d.item, d.token)' =>
          HoldsToken(d.item, d.token) /\ Grows(d.item)
    BY <1>1, <2>1, WorldStep
  <2>4. d.found \in Seq(Views) /\ Len(d.found) < Looks
    BY DEF CallStates, Verified
  <2>5. Grows(d.item) /\ Viewed(d.item, d.found) => Viewed(d.item, d.found)'
    BY <2>4, RequestsAssumption DEF Grows, Viewed
  <2>6. Grows(d.item) /\ Witnessed(d.item, d.record.key) => Witnessed(d.item, d.record.key)'
    BY DEF Grows, Witnessed
  <2> HIDE DEF Grows, Viewed, Witnessed
  <2> QED
    BY <1>1, <2>2, <2>3, <2>4, <2>5, <2>6 DEF Verified, Viewed, Witnessed
<1> QED
  BY <1>2, <1>3

\* What the journal says stays true while it is not written.
LEMMA JournalStays ==
    ASSUME FinalizeInv, FinalizeNext, NEW i \in Items, journal'[i] = journal[i],
           journal[i] # NoRecord, journal[i].state # "PREPARED"
    PROVE  Completed(i, journal[i].key)'
<1>1. journal[i] \in Records
  BY DEF FinalizeInv, FinalizeTypeOK
<1>2. journal[i].key \in Requests
  BY <1>1 DEF Records
<1>3. Completed(i, journal[i].key)
  BY DEF FinalizeInv, SettledIsCompleted, Completed
<1> QED
  BY <1>2, <1>3, WorldStep

\* The part of the invariant that is about calls and the journal.
CallsSound ==
    /\ call \in CallTypes
    /\ journal \in JournalTypes
    /\ SettledIsCompleted
    /\ \A c \in Calls : call[c] # NoCall => Backed(call[c]) /\ Verified(call[c])

\* A step of one call is sound when what that call then knows, and what it
\* writes, is true.
LEMMA OneCallMoves ==
    ASSUME FinalizeInv, FinalizeNext, NEW c \in Calls,
           call' \in CallTypes, journal' \in JournalTypes,
           \A e \in Calls : e # c => call'[e] = call[e],
           call'[c] # NoCall => Backed(call[c])' /\ Verified(call[c])',
           \A i \in Items : \/ journal'[i] = journal[i]
                            \/ journal'[i].state = "PREPARED"
                            \/ Completed(i, journal[i].key)'
    PROVE  CallsSound'
<1>1. SettledIsCompleted'
  <2> SUFFICES ASSUME NEW i \in Items, journal'[i] # NoRecord, journal'[i].state # "PREPARED"
               PROVE  Completed(i, journal[i].key)'
    BY DEF SettledIsCompleted, Completed
  <2>1. CASE journal'[i] = journal[i]
    <3>1. Completed(i, journal[i].key)' <=> 
            \/ status'[i] = "DONE" /\ marker'[i] = journal'[i].key
            \/ status'[i] = "REMOVED"
      BY DEF Completed
    <3> QED
      BY <2>1, JournalStays
  <2> QED
    BY <2>1
<1>2. ASSUME NEW e \in Calls, call'[e] # NoCall
      PROVE  Backed(call[e])' /\ Verified(call[e])'
  <2>1. CASE e = c
    BY <1>2, <2>1
  <2>2. CASE e # c
    <3>1. call'[e] = call[e]
      BY <2>2
    <3>2. call[e] \in CallStates /\ Backed(call[e]) /\ Verified(call[e])
      BY <1>2, <3>1, UnderWay DEF FinalizeInv
    <3> QED
      BY <3>1, <3>2, KnownStays
  <2> QED
    BY <2>1, <2>2
<1> QED
  BY <1>1, <1>2 DEF CallsSound

\* The journal is left alone, or told what is true.
JournalTrue ==
    /\ journal' \in JournalTypes
    /\ \A i \in Items : \/ journal'[i] = journal[i]
                        \/ journal'[i].state = "PREPARED"
                        \/ Completed(i, journal[i].key)'

LEMMA MoveSound ==
    ASSUME FinalizeInv, FinalizeNext, NEW c \in Calls, NEW d \in CallStates,
           call' = [call EXCEPT ![c] = d], Backed(d), Verified(d), JournalTrue
    PROVE  CallsSound'
<1>1. call' \in CallTypes /\ call'[c] = d /\ \A e \in Calls : e # c => call'[e] = call[e]
  BY DEF FinalizeInv, FinalizeTypeOK, CallTypes
<1>2. Backed(call[c])' /\ Verified(call[c])'
  BY <1>1, KnownStays
<1> QED
  BY <1>1, <1>2, OneCallMoves DEF JournalTrue

LEMMA EndSound ==
    ASSUME FinalizeInv, FinalizeNext, NEW c \in Calls, End(c), JournalTrue
    PROVE  CallsSound'
<1>1. call' \in CallTypes /\ call'[c] = NoCall /\ \A e \in Calls : e # c => call'[e] = call[e]
  BY DEF FinalizeInv, FinalizeTypeOK, CallTypes, End
<1> QED
  BY <1>1, OneCallMoves DEF JournalTrue

\* The call goes to another place.
LEMMA GoSound ==
    ASSUME FinalizeInv, FinalizeNext, NEW c \in Calls, call[c] # NoCall,
           NEW pc \in Steps, Go(c, pc), JournalTrue,
           \A d \in CallStates :
             d.pc = pc /\ d.item = call[c].item /\ d.token = call[c].token
             /\ d.record = call[c].record /\ d.found = call[c].found => Backed(d) /\ Verified(d)
    PROVE  CallsSound'
<1> DEFINE d == [call[c] EXCEPT !.pc = pc]
<1>1. call[c] \in CallStates
  BY UnderWay DEF FinalizeInv
<1>2. /\ d \in CallStates /\ d.pc = pc /\ d.item = call[c].item
      /\ d.token = call[c].token /\ d.record = call[c].record
      /\ d.found = call[c].found
  BY <1>1 DEF CallStates
<1>3. call' = [call EXCEPT ![c] = d]
  BY DEF Go
<1> HIDE DEF d
<1>4. Backed(d) /\ Verified(d)
  BY <1>2
<1> QED
  BY <1>2, <1>3, <1>4, MoveSound

\* The call goes to another place with another record.
LEMMA GoWithSound ==
    ASSUME FinalizeInv, FinalizeNext, NEW c \in Calls, call[c] # NoCall,
           NEW pc \in Steps, NEW record \in Records, GoWith(c, pc, record), JournalTrue,
           \A d \in CallStates :
             d.pc = pc /\ d.item = call[c].item /\ d.token = call[c].token
             /\ d.record = record /\ d.found = call[c].found => Backed(d) /\ Verified(d)
    PROVE  CallsSound'
<1> DEFINE d == [call[c] EXCEPT !.pc = pc, !.record = record]
<1>1. call[c] \in CallStates
  BY UnderWay DEF FinalizeInv
<1>2. /\ d \in CallStates /\ d.pc = pc /\ d.item = call[c].item
      /\ d.token = call[c].token /\ d.record = record
      /\ d.found = call[c].found
  BY <1>1 DEF CallStates
<1>3. call' = [call EXCEPT ![c] = d]
  BY DEF GoWith
<1> HIDE DEF d
<1>4. Backed(d) /\ Verified(d)
  BY <1>2
<1> QED
  BY <1>2, <1>3, <1>4, MoveSound

\* A step of the world around them leaves the calls, and the journal, sound.
LEMMA NoCallMoves ==
    ASSUME FinalizeInv, FinalizeNext, UNCHANGED <<journal, call>>
    PROVE  CallsSound'
<1>1. JournalTrue
  BY DEF JournalTrue, JournalTypes, FinalizeInv, FinalizeTypeOK
<1>2. call' \in CallTypes
  BY DEF CallTypes, FinalizeInv, FinalizeTypeOK
<1>3. CASE Calls = {}
  <2>1. ASSUME NEW i \in Items, journal'[i] # NoRecord, journal'[i].state # "PREPARED"
        PROVE  \/ status'[i] = "DONE" /\ marker'[i] = journal'[i].key
               \/ status'[i] = "REMOVED"
    BY <2>1, JournalStays DEF Completed
  <2> QED
    BY <1>1, <1>2, <1>3, <2>1 DEF CallsSound, JournalTrue, SettledIsCompleted
<1>4. ASSUME NEW c \in Calls
      PROVE  CallsSound'
  <2>1. call'[c] # NoCall => Backed(call[c])' /\ Verified(call[c])'
    BY KnownStays, UnderWay DEF FinalizeInv
  <2> QED
    BY <1>1, <1>2, <2>1, OneCallMoves DEF JournalTrue
<1> QED
  BY <1>3, <1>4

-----------------------------------------------------------------------------
(* The steps *)

LEMMA JournalUntouched ==
    ASSUME FinalizeInv, UNCHANGED journal
    PROVE  JournalTrue
  BY DEF JournalTrue, JournalTypes, FinalizeInv, FinalizeTypeOK

LEMMA WrittenTrue ==
    ASSUME FinalizeInv, FinalizeNext, NEW c \in Calls, call[c] # NoCall,
           NEW state \in States, Write(c, state),
           state = "PREPARED" \/ Completed(call[c].item, call[c].record.key)
    PROVE  JournalTrue
<1>1. FinalizeTypeOK
  BY DEF FinalizeInv
<1>2. Completed(call[c].item, call[c].record.key)
        => \/ status'[call[c].item] = "DONE"
              /\ marker'[call[c].item] = call[c].record.key
           \/ status'[call[c].item] = "REMOVED"
  BY <1>1, UnderWay, WorldStep DEF Completed
<1> QED
  BY <1>1, <1>2, WriteType DEF JournalTrue, Completed

LEMMA BeginSound ==
    ASSUME FinalizeInv, FinalizeNext, NEW c \in Calls, BeginStep(c)
    PROVE  CallsSound'
<1> USE DEF FinalizeInv
<1>0. issued \in Nat
  BY DEF CleanInv, TypeOK
<1>1. ASSUME NEW r \in Requests, NEW t \in 1 .. issued, BeginFinalize(c, r, t)
      PROVE  CallsSound'
  <2>1. PICK pc \in {"check", "load"}, kind \in {"finalize", "resume"} :
          call' = [call EXCEPT ![c] =
            [pc |-> pc, kind |-> kind, item |-> ItemOf[r], token |-> t, ack |-> FALSE,
             record |-> [key |-> r, state |-> "DRAFT"], found |-> <<>>]]
    BY <1>1 DEF BeginFinalize
  <2> DEFINE d == [pc |-> pc, kind |-> kind, item |-> ItemOf[r], token |-> t,
                   ack |-> FALSE, record |-> [key |-> r, state |-> "DRAFT"],
                   found |-> <<>>]
  <2>2. d \in CallStates /\ Backed(d) /\ Verified(d)
    BY <1>0, RequestsAssumption DEF CallStates, Steps, Drafts, Backed, Verified, Viewed
  <2>3. UNCHANGED journal
    BY <1>1 DEF BeginFinalize
  <2> QED
    BY <2>1, <2>2, <2>3, JournalUntouched, MoveSound
<1>2. ASSUME NEW i \in Items, NEW t \in 0 .. issued, NEW ack \in BOOLEAN,
             BeginResume(c, i, t, ack)
      PROVE  CallsSound'
  <2> DEFINE d == [pc |-> "item", kind |-> "resume", item |-> i, token |-> t,
                   ack |-> ack, record |-> journal[i], found |-> <<>>]
  <2>1. call' = [call EXCEPT ![c] = d] /\ UNCHANGED journal
    BY <1>2 DEF BeginResume
  <2>2. journal[i] \in Records
    BY <1>2 DEF BeginResume, FinalizeTypeOK
  <2>3. d \in CallStates /\ Verified(d)
    BY <1>0, <2>2, RequestsAssumption DEF CallStates, Steps, Verified, Viewed
  <2>4. Backed(d)
    BY <1>2, <2>2 DEF Backed, BeginResume, SettledIsCompleted, Completed
  <2> QED
    BY <2>1, <2>3, <2>4, JournalUntouched, MoveSound
<1> QED
  BY <1>1, <1>2 DEF BeginStep

LEMMA LoadSound ==
    ASSUME FinalizeInv, FinalizeNext, NEW c \in Calls, Load(c)
    PROVE  CallsSound'
<1>1. call[c] # NoCall /\ call[c].item \in Items /\ Verified(call[c])
  BY UnderWay DEF Load, At, FinalizeInv
<1> DEFINE found == journal[call[c].item]
<1>2. found \in Records /\ GoWith(c, "item", found) /\ UNCHANGED journal
  BY <1>1 DEF Load, FinalizeInv, FinalizeTypeOK
<1>3. ASSUME NEW d \in CallStates, d.pc = "item", d.item = call[c].item,
             d.token = call[c].token, d.record = found,
             d.found = call[c].found
      PROVE  Backed(d) /\ Verified(d)
  <2>1. Backed(d)
    BY <1>1, <1>2, <1>3 DEF Backed, FinalizeInv, SettledIsCompleted, Completed, Load
  <2>2. Verified(d)
    BY <1>1, <1>3 DEF Verified
  <2> QED
    BY <2>1, <2>2
<1> HIDE DEF found
<1> QED
  BY <1>1, <1>2, <1>3, JournalUntouched, GoWithSound DEF Steps

LEMMA ReadItemSound ==
    ASSUME FinalizeInv, FinalizeNext, NEW c \in Calls, ReadItem(c)
    PROVE  CallsSound'
<1>1. /\ call[c] # NoCall /\ call[c].pc = "item"
      /\ Backed(call[c]) /\ Verified(call[c]) /\ UNCHANGED journal
  BY DEF ReadItem, At, FinalizeInv
<1>2. CASE End(c)
  BY <1>1, <1>2, JournalUntouched, EndSound
<1>3. ASSUME NEW pc \in {"sync", "settle", "check"}, Go(c, pc),
             pc = "sync" => Reconciled(c), pc = "settle" => Reconcilable(c)
      PROVE  CallsSound'
  <2>1. ASSUME NEW d \in CallStates, d.pc = pc, d.item = call[c].item,
               d.token = call[c].token, d.record = call[c].record,
               d.found = call[c].found
        PROVE  Backed(d) /\ Verified(d)
    BY <1>1, <1>3, <2>1 DEF Backed, Verified, Reconciled, Reconcilable, Completed
  <2> QED
    BY <1>1, <1>3, <2>1, JournalUntouched, GoSound DEF Steps
<1> QED
  BY <1>2, <1>3 DEF ReadItem

LEMMA LookSound ==
    ASSUME FinalizeInv, FinalizeNext, NEW c \in Calls, Look(c)
    PROVE  CallsSound'
<1> DEFINE x == tree[Len(call[c].found) + 1]
           d == [call[c] EXCEPT !.found = Append(call[c].found, x)]
<1>1. /\ call[c] # NoCall /\ call[c].pc = "check" /\ call[c].item \in Items
      /\ call[c] \in CallStates /\ call[c].found \in Seq(Views)
      /\ Backed(call[c]) /\ Verified(call[c]) /\ UNCHANGED journal
  BY UnderWay DEF Look, At, FinalizeInv, CallStates
<1>2. /\ Len(call[c].found) + 1 \in 1 .. Looks
      /\ Len(call[c].found) + 1 < Looks
      /\ Looks \in Nat
  BY <1>1, RequestsAssumption DEF Look
<1>3. x \in Views
  BY <1>2, RequestsAssumption DEF FinalizeInv, FinalizeTypeOK
<1>4. call' = [call EXCEPT ![c] = d]
  BY DEF Look
<1>5. /\ d \in CallStates /\ d.pc = "check" /\ d.item = call[c].item
      /\ d.token = call[c].token /\ d.record = call[c].record
      /\ d.found = Append(call[c].found, x)
  <2>1. Append(call[c].found, x) \in Seq(Views)
    BY <1>1, <1>3
  <2> QED
    BY <1>1, <2>1 DEF CallStates
<1>6. HoldsToken(d.item, d.token) => x \in seen[d.item][Len(call[c].found) + 1]
  BY <1>1, <1>2, <1>5 DEF HoldsToken, Claimed, FinalizeInv
<1> HIDE DEF x, d
<1>7. HoldsToken(d.item, d.token) => Viewed(d.item, d.found)
  BY <1>1, <1>3, <1>5, <1>6 DEF Verified, Viewed
<1>8. Backed(d) /\ Verified(d)
  BY <1>1, <1>2, <1>3, <1>5, <1>7 DEF Backed, Verified
<1> QED
  BY <1>1, <1>4, <1>5, <1>8, JournalUntouched, MoveSound

\* What was found is what could be seen, the last look included.
LEMMA FoundWitnessed ==
    ASSUME FinalizeInv, NEW c \in Calls, Check(c), Fresh(c),
           HoldsToken(call[c].item, call[c].token)
    PROVE  Witnessed(call[c].item, call[c].record.key)
<1> DEFINE i == call[c].item
           found == FoundBy(c)
<1>1. /\ call[c] # NoCall /\ i \in Items /\ call[c].found \in Seq(Views)
      /\ Verified(call[c]) /\ Len(call[c].found) = Looks - 1
  BY UnderWay DEF Check, At, FinalizeInv, CallStates
<1>2. Looks \in Nat \ {0} /\ tree[Looks] \in Views
  BY RequestsAssumption DEF FinalizeInv, FinalizeTypeOK
<1>3. tree[Looks] \in seen[i][Looks]
  BY <1>1, <1>2 DEF HoldsToken, Claimed, FinalizeInv
<1>4. /\ \A n \in 1 .. Looks - 1 : found[n] = call[c].found[n]
      /\ found[Looks] = tree[Looks]
  BY <1>1, <1>2 DEF FoundBy
<1>5. \A n \in 1 .. Looks - 1 : call[c].found[n] \in seen[i][n]
  BY <1>1 DEF Verified, Viewed
<1>6. \A n \in 1 .. Looks : found[n] \in seen[i][n]
  BY <1>2, <1>3, <1>4, <1>5
<1> QED
  BY <1>6 DEF Fresh, Witnessed

LEMMA CheckSound ==
    ASSUME FinalizeInv, FinalizeNext, NEW c \in Calls, Check(c)
    PROVE  CallsSound'
<1>1. /\ call[c] # NoCall /\ call[c].pc = "check"
      /\ Backed(call[c]) /\ Verified(call[c]) /\ UNCHANGED journal
  BY DEF Check, At, FinalizeInv
<1>2. CASE End(c)
  BY <1>1, <1>2, JournalUntouched, EndSound
<1>3. CASE Fresh(c) /\ Go(c, "beat")
  <2>1. ASSUME NEW d \in CallStates, d.pc = "beat", d.item = call[c].item,
               d.token = call[c].token, d.record = call[c].record,
               d.found = call[c].found
        PROVE  Backed(d) /\ Verified(d)
    BY <1>1, <1>3, <2>1, FoundWitnessed DEF Backed, Verified
  <2> QED
    BY <1>1, <1>3, <2>1, JournalUntouched, GoSound DEF Steps
<1> QED
  BY <1>2, <1>3 DEF Check

LEMMA BeatSound ==
    ASSUME FinalizeInv, FinalizeNext, NEW c \in Calls, Beat(c)
    PROVE  CallsSound'
<1>1. /\ call[c] # NoCall /\ call[c].pc = "beat"
      /\ Backed(call[c]) /\ Verified(call[c]) /\ UNCHANGED journal
  BY DEF Beat, At, FinalizeInv
<1>2. CASE End(c)
  BY <1>1, <1>2, JournalUntouched, EndSound
<1>3. ASSUME NEW pc \in {"prepare", "complete"}, Go(c, pc)
      PROVE  CallsSound'
  <2>1. ASSUME NEW d \in CallStates, d.pc = pc, d.item = call[c].item,
               d.token = call[c].token, d.record = call[c].record,
               d.found = call[c].found
        PROVE  Backed(d) /\ Verified(d)
    BY <1>1, <2>1 DEF Backed, Verified
  <2> QED
    BY <1>1, <1>3, <2>1, JournalUntouched, GoSound DEF Steps
<1> QED
  BY <1>2, <1>3 DEF Beat, Refused

LEMMA PrepareSound ==
    ASSUME FinalizeInv, FinalizeNext, NEW c \in Calls, Prepare(c)
    PROVE  CallsSound'
<1>1. /\ call[c] # NoCall /\ call[c].pc = "prepare"
      /\ Backed(call[c]) /\ Verified(call[c])
      /\ Write(c, "PREPARED") /\ Go(c, "complete")
  BY DEF Prepare, At, FinalizeInv
<1>2. ASSUME NEW d \in CallStates, d.pc = "complete", d.item = call[c].item,
             d.token = call[c].token, d.record = call[c].record,
             d.found = call[c].found
      PROVE  Backed(d) /\ Verified(d)
  BY <1>1, <1>2 DEF Backed, Verified
<1> QED
  BY <1>1, <1>2, WrittenTrue, GoSound DEF Steps, States

LEMMA CompleteItemSound ==
    ASSUME FinalizeInv, FinalizeNext, NEW c \in Calls, CompleteItem(c)
    PROVE  CallsSound'
<1>1. /\ call[c] # NoCall /\ call[c] \in CallStates /\ call[c].item \in Items
      /\ call[c].record.key \in Requests
      /\ Verified(call[c]) /\ UNCHANGED journal
  BY UnderWay DEF CompleteItem, At, FinalizeInv
<1>2. CASE End(c)
  BY <1>1, <1>2, JournalUntouched, EndSound
<1>3. CASE /\ Complete(call[c].item, call[c].token)
           /\ marker' = [marker EXCEPT ![call[c].item] = call[c].record.key]
           /\ Go(c, "settle")
  <2> DEFINE d == [call[c] EXCEPT !.pc = "settle"]
  <2>1. /\ d \in CallStates /\ d.pc = "settle" /\ d.item = call[c].item
        /\ d.token = call[c].token /\ d.record = call[c].record
        /\ d.found = call[c].found
    BY <1>1 DEF CallStates, Steps
  <2>2. call' = [call EXCEPT ![c] = d]
    BY <1>3 DEF Go
  <2> HIDE DEF d
  <2>3. /\ call' \in CallTypes /\ call'[c] = d
        /\ \A e \in Calls : e # c => call'[e] = call[e]
    BY <2>1, <2>2 DEF FinalizeInv, FinalizeTypeOK, CallTypes
  <2>4. status'[call[c].item] = "DONE" /\ marker'[call[c].item] = call[c].record.key
    BY <1>1, <1>3
       DEF Complete, WriteCompleted, FinalizeInv, FinalizeTypeOK, TypeOK
  <2>5. Backed(call[c])'
    BY <2>1, <2>3, <2>4 DEF Backed, Completed
  <2>6. Verified(call[c])'
    <3>1. claim'[call[c].item] = NoClaim
      BY <1>1, <1>3 DEF Complete, ArchiveClaim, HoldsToken, FinalizeInv, FinalizeTypeOK, TypeOK
    <3> QED
      BY <1>1, <1>3, <2>1, <2>3, <3>1 DEF Verified, Complete, HoldsToken
  <2> QED
    BY <1>1, <2>3, <2>5, <2>6, JournalUntouched, OneCallMoves DEF JournalTrue
<1> QED
  BY <1>2, <1>3 DEF CompleteItem, Refused

LEMMA SettleSound ==
    ASSUME FinalizeInv, FinalizeNext, NEW c \in Calls, Settle(c)
    PROVE  CallsSound'
<1> DEFINE record == [call[c].record EXCEPT !.state = "RECONCILIATION_REQUIRED"]
<1>1. /\ call[c] # NoCall /\ call[c].pc = "settle"
      /\ Backed(call[c]) /\ Verified(call[c])
      /\ Write(c, "RECONCILIATION_REQUIRED")
  BY UnderWay DEF Settle, At, FinalizeInv
<1>2. Completed(call[c].item, call[c].record.key)
  BY <1>1 DEF Backed
<1>3. JournalTrue
  BY <1>1, <1>2, WrittenTrue DEF States
<1>4. CASE End(c)
  BY <1>3, <1>4, EndSound
<1>5. CASE GoWith(c, "sync", record)
  <2>1. /\ record \in Records /\ record.state = "RECONCILIATION_REQUIRED"
        /\ record.key = call[c].record.key
    BY <1>1, UnderWay, RecordType DEF FinalizeInv, States
  <2> HIDE DEF record
  <2>2. ASSUME NEW d \in CallStates, d.pc = "sync", d.item = call[c].item,
               d.token = call[c].token, d.record = record,
               d.found = call[c].found
        PROVE  Backed(d) /\ Verified(d)
    BY <1>1, <1>2, <2>1, <2>2 DEF Backed, Verified
  <2> QED
    BY <1>1, <1>3, <1>5, <2>1, <2>2, GoWithSound DEF Steps
<1> QED
  BY <1>4, <1>5 DEF Settle

LEMMA SyncSound ==
    ASSUME FinalizeInv, FinalizeNext, NEW c \in Calls, Sync(c)
    PROVE  CallsSound'
<1>1. /\ call[c] # NoCall /\ call[c].pc = "sync" /\ call[c].record \in Records
      /\ Backed(call[c]) /\ Verified(call[c]) /\ UNCHANGED journal
  BY UnderWay DEF Sync, At, FinalizeInv, Backed
<1>2. /\ call[c].record.state \in {"RECONCILIATION_REQUIRED", "SYNCED"}
      /\ Completed(call[c].item, call[c].record.key)
  BY <1>1 DEF Backed, Records, States
<1>3. CASE End(c)
  BY <1>1, <1>3, JournalUntouched, EndSound
<1>4. CASE GoWith(c, "save", [call[c].record EXCEPT !.state = SyncState(c)])
  <2> DEFINE state == SyncState(c)
             record == [call[c].record EXCEPT !.state = state]
  <2>1. state \in States /\ state # "PREPARED"
    BY <1>2 DEF SyncState, States
  <2>2. record \in Records /\ record.state = state /\ record.key = call[c].record.key
    BY <1>1, <2>1, RecordType
  <2> HIDE DEF state, record
  <2>3. ASSUME NEW d \in CallStates, d.pc = "save", d.item = call[c].item,
               d.token = call[c].token, d.record = record,
               d.found = call[c].found
        PROVE  Backed(d) /\ Verified(d)
    BY <1>1, <1>2, <2>1, <2>2, <2>3 DEF Backed, Verified
  <2>4. GoWith(c, "save", record)
    BY <1>4 DEF record, state
  <2> QED
    BY <1>1, <2>2, <2>3, <2>4, JournalUntouched, GoWithSound DEF Steps
<1> QED
  BY <1>3, <1>4 DEF Sync

LEMMA SaveSound ==
    ASSUME FinalizeInv, FinalizeNext, NEW c \in Calls, Save(c)
    PROVE  CallsSound'
<1>1. /\ call[c] # NoCall /\ call[c].pc = "save" /\ call[c].record \in Records
      /\ Backed(call[c]) /\ Write(c, call[c].record.state) /\ End(c)
  BY UnderWay DEF Save, At, FinalizeInv, Backed
<1>2. call[c].record.state \in States /\ Completed(call[c].item, call[c].record.key)
  BY <1>1 DEF Backed, Records, States
<1> QED
  BY <1>1, <1>2, WrittenTrue, EndSound

-----------------------------------------------------------------------------
(* Theorems *)

\* Every step of finalize, of the queue and of the world keeps the invariant.
LEMMA FinalizeInvNext ==
    ASSUME FinalizeInv, [FinalizeNext]_fvars
    PROVE  FinalizeInv'
<1>1. CASE FinalizeNext
  <2>1. CallsSound'
    <3>1. ASSUME NEW c \in Calls, CallStep(c)
          PROVE  CallsSound'
      BY <1>1, <3>1, LoadSound, ReadItemSound, LookSound, CheckSound, BeatSound, PrepareSound,
         CompleteItemSound, SettleSound, SyncSound, SaveSound DEF CallStep
    <3>2. ASSUME NEW c \in Calls, Die(c)
          PROVE  CallsSound'
      BY <1>1, <3>2, JournalUntouched, EndSound DEF Die
    <3>3. CASE QueueStep \/ Edit
      BY <1>1, <3>3, NoCallMoves DEF QueueStep, Edit
    <3> QED
      BY <1>1, <3>1, <3>2, <3>3, BeginSound DEF FinalizeNext
  <2>2. inSync' \subseteq Plans /\ deaths' \in Nat
    <3>1. UNCHANGED World \/ Edit \/ \E c \in Calls : Die(c)
      BY <1>1 DEF FinalizeNext, BeginStep, BeginFinalize, BeginResume, CallStep, Load,
                  ReadItem, Look, Check, Beat, Prepare, CompleteItem, Settle, Sync, Save,
                  QueueStep
    <3>2. UNCHANGED World => inSync' = inSync /\ deaths' = deaths
      BY DEF World
    <3> QED
      BY <3>1, <3>2 DEF Die, Edit, FinalizeInv, FinalizeTypeOK
  <2> QED
    BY <1>1, <2>1, <2>2, WorldStep
       DEF FinalizeInv, FinalizeTypeOK, CallsSound, CallTypes, JournalTypes, SeenTypes, CleanInv
<1>2. CASE UNCHANGED fvars
  <2>1. CleanInv'
    BY <1>2, CleanNext DEF FinalizeInv, fvars
  <2> QED
    BY <1>2, <2>1 DEF FinalizeInv, fvars, vars, FinalizeTypeOK, TypeOK,
       SettledIsCompleted, Claimed, Backed, Verified, Viewed, Witnessed, Completed,
       HoldsToken
<1> QED
  BY <1>1, <1>2

\* While no process dies inside the queue, every call knows what it acts on:
\* completed items are completed with its key, its evidence seen under its claim.
THEOREM FinalizeInvariant == FinalizeSpec => []FinalizeInv
<1>1. FinalizeInit => FinalizeInv
  <2> SUFFICES ASSUME FinalizeInit
               PROVE  FinalizeInv
    OBVIOUS
  <2>1. TypeOK /\ CleanInv
    BY DEF FinalizeInit, Init, TypeOK, FileStates, CleanInv, TokensSound,
           TokensSpentOnce, Closed, Claimed
  <2> QED
    BY <2>1 DEF FinalizeInit, Init, FinalizeInv, FinalizeTypeOK, SettledIsCompleted,
                Claimed
<1>2. FinalizeInv /\ [FinalizeNext]_fvars => FinalizeInv'
  BY FinalizeInvNext
<1> QED
  BY <1>1, <1>2, PTL DEF FinalizeSpec

\* Calls, journals and queue keep their types.
THEOREM FinalizeTypeCorrect == FinalizeSpec => []FinalizeTypeOK
<1>1. FinalizeInv => FinalizeTypeOK
  BY DEF FinalizeInv
<1> QED
  BY <1>1, FinalizeInvariant, PTL

\* A journal beyond PREPARED is about an item that was completed with its key.
THEOREM FinalizeSettled == FinalizeSpec => []SettledIsCompleted
<1>1. FinalizeInv => SettledIsCompleted
  BY DEF FinalizeInv
<1> QED
  BY <1>1, FinalizeInvariant, PTL

\* finalize and resume act on the queue through its operations only: the queue
\* below them is the queue of AgentQueue, and its theorems hold of it.
THEOREM FinalizeImplementsQueue == FinalizeSpec => Spec
<1>1. FinalizeInit => Init
  BY DEF FinalizeInit
<1>2. FinalizeInv /\ [FinalizeNext]_fvars => [Next]_vars
  <2>1. UNCHANGED fvars => UNCHANGED vars
    BY DEF fvars
  <2> QED
    BY <2>1, QueueOfStep DEF FinalizeInv
<1> QED
  BY <1>1, <1>2, FinalizeInvariant, PTL DEF FinalizeSpec, Spec

\* An item is completed with evidence each view of which was there at some moment
\* of the claim it is completed with, however many looks a fingerprint takes.
THEOREM FinalizeVerified == FinalizeSpec => VerifiedUnderClaim
<1> DEFINE Held == \A i \in Items : marker'[i] \notin {marker[i], NoRequest} =>
                       Witnessed(i, marker'[i])
<1>1. ASSUME FinalizeInv, FinalizeNext
      PROVE  Held
  <2>1. ASSUME NEW c \in Calls, CompleteItem(c)
        PROVE  Held
    <3>1. /\ call[c] # NoCall /\ call[c].item \in Items /\ call[c].pc = "complete"
          /\ Verified(call[c]) /\ call[c].record.key \in Requests
      BY <1>1, <2>1, UnderWay DEF CompleteItem, At, FinalizeInv
    <3>2. CASE UNCHANGED marker
      BY <3>2
    <3>3. CASE /\ Complete(call[c].item, call[c].token)
               /\ marker' = [marker EXCEPT ![call[c].item] = call[c].record.key]
      <4>1. Witnessed(call[c].item, call[c].record.key)
        BY <3>1, <3>3 DEF Verified, Complete, Owns
      <4>2. marker'[call[c].item] = call[c].record.key
        BY <1>1, <3>1, <3>3 DEF FinalizeInv, FinalizeTypeOK
      <4>3. \A i \in Items : i # call[c].item => marker'[i] = marker[i]
        BY <1>1, <3>3 DEF FinalizeInv, FinalizeTypeOK
      <4> QED
        BY <4>1, <4>2, <4>3
    <3> QED
      BY <2>1, <3>2, <3>3 DEF CompleteItem, Refused
  <2>2. CASE QueueStep
    BY <2>2 DEF QueueStep
  <2>3. CASE ~ QueueStep /\ ~ \E c \in Calls : CompleteItem(c)
    <3>1. UNCHANGED marker
      BY <1>1, <2>3
         DEF FinalizeNext, BeginStep, BeginFinalize, BeginResume, CallStep, Load, ReadItem,
             Look, Check, Beat, Refused, Prepare, Settle, Sync, Save, Die, Edit, QuietQueue
    <3> QED
      BY <3>1
  <2> QED
    BY <2>1, <2>2, <2>3
<1>2. FinalizeInv /\ [FinalizeNext]_fvars => [Held]_fvars
  BY <1>1
<1> QED
  BY <1>2, FinalizeInvariant, PTL DEF FinalizeSpec, VerifiedUnderClaim, Witnessed
=============================================================================
