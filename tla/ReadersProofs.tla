----------------------------- MODULE ReadersProofs -----------------------------
(***************************************************************************)
(* Theorems about the readers that take no lock, for any items and any     *)
(* number of operations, readings and deletions: the item files are never  *)
(* in a circle, rows that are read at different times were still true,     *)
(* and each failed reading has a cause.                                    *)
(***************************************************************************)
EXTENDS Readers, SequenceTheorems, WellFoundedInduction, TLAPS

-----------------------------------------------------------------------------
(* Lemmas about the operators *)

\* For any two sets of summaries: what did not change and is not removed is the
\* same in both, and everything else of the second one is in the delta.
LEMMA DeltaLeads ==
    ASSUME NEW before, NEW now, now = [i \in DOMAIN now |-> now[i]],
           event_delta(before, now) # NoDelta
    PROVE  LET delta == event_delta(before, now)
               kept == DOMAIN before \ delta.removed
           IN  now = [i \in kept \cup DOMAIN delta.changed |->
                        IF i \in DOMAIN delta.changed THEN delta.changed[i] ELSE before[i]]
<1> DEFINE D == DOMAIN before
           N == DOMAIN now
           C == Changed(before, now)
<1>1. C \subseteq N
  BY DEF event_delta
<1>2. event_delta(before, now) = [changed |-> [i \in C |-> now[i]], removed |-> D \ N]
  BY <1>1 DEF event_delta
<1>3. (D \ (D \ N)) \cup C = N
  BY <1>1 DEF Changed
<1>4. \A i \in N \ C : before[i] = now[i]
  BY DEF Changed
<1>5. now = [i \in N |-> IF i \in C THEN now[i] ELSE before[i]]
  BY <1>4
<1>6. /\ event_delta(before, now).removed = D \ N
      /\ event_delta(before, now).changed = [i \in C |-> now[i]]
      /\ DOMAIN event_delta(before, now).changed = C
  BY <1>2
<1> HIDE DEF C
<1> QED
  BY <1>3, <1>5, <1>6

\* With the previous snapshot, a delta gives the current one.
THEOREM DeltasApply == ReadersSpec => []DeltaApplies
<1>1. DeltaApplies
  <2> DEFINE now == Snapshot
  <2> SUFFICES ASSUME previous # NoSnapshot, event_delta(previous, Snapshot) # NoDelta
               PROVE  LET delta == event_delta(previous, Snapshot)
                          kept == DOMAIN previous \ delta.removed
                      IN  Snapshot = [i \in kept \cup DOMAIN delta.changed |->
                                        IF i \in DOMAIN delta.changed THEN delta.changed[i]
                                                                      ELSE previous[i]]
    BY DEF DeltaApplies
  <2>1. now = [i \in DOMAIN now |-> now[i]] /\ event_delta(previous, now) # NoDelta
    BY DEF Snapshot
  <2> HIDE DEF now
  <2>2. LET delta == event_delta(previous, now)
            kept == DOMAIN previous \ delta.removed
        IN  now = [i \in kept \cup DOMAIN delta.changed |->
                     IF i \in DOMAIN delta.changed THEN delta.changed[i] ELSE previous[i]]
    BY <2>1, DeltaLeads
  <2> QED
    BY <2>2 DEF now
<1> QED
  BY <1>1, PTL

-----------------------------------------------------------------------------
(* The files: an inductive invariant *)

Statuses == {"TODO", "BLOCKED", "DONE"}

Gone(i) == item[i] = "NONE" /\ removals > 0

\* A claim is being archived.
Ending(i) == <<ClaimDir(i, "HUSK"), ClaimDir(i, "NONE")>>

\* The item whose file is about to be written.
Coming == {i \in Items : plan # <<>> /\ Head(plan).file = "item" /\ Head(plan).of = i}

Files == {i \in Items : item[i] # "NONE"} \cup Coming

FilesTyped ==
    /\ item \in [Items -> {"NONE", "TORN", "TODO", "BLOCKED", "DONE"}]
    /\ needs \in [Items -> SUBSET Items]
    /\ claim \in [Items -> {"NONE", "HUSK", "LIVE", "STALE"}]
    /\ journal \in [Items -> {"NONE", "PREPARED", "RECONCILIATION_REQUIRED", "SYNCED"}]
    /\ removals \in Nat
    /\ sweep \subseteq Items

\* Work that is claimed, or is being claimed, is ready unless an item was deleted.
DependenciesDone(i) == removals = 0 => \A d \in needs[i] : item[d] = "DONE"

\* What the process with the lock may be about to write, one disjunct for each
\* point of each operation.
PlanOf(i) ==
    \/ /\ \E s \in Statuses : plan = <<Item(i, "TORN"), Item(i, s)>>
       /\ item[i] = "NONE"
    \/ /\ \E s \in Statuses : plan = <<Item(i, s)>>
       /\ item[i] = "TORN"
    \/ /\ plan = <<Item(i, "TODO")>>
       /\ item[i] = "BLOCKED" \/ Gone(i)
       /\ ClaimFile(i) => removals > 0
    \/ /\ plan = <<ClaimDir(i, "HUSK"), ClaimDir(i, "LIVE")>>
       /\ item[i] = "TODO" \/ Gone(i)
       /\ DependenciesDone(i) /\ (ClaimFile(i) => i \in sweep)
    \/ /\ plan = <<ClaimDir(i, "LIVE")>>
       /\ item[i] = "TODO" \/ Gone(i) \/ (ClaimFile(i) /\ removals > 0)
       /\ DependenciesDone(i)
    \/ /\ \E s \in {"DONE", "BLOCKED"} :
            plan = <<Item(i, s), ClaimDir(i, "HUSK"), ClaimDir(i, "NONE")>>
       /\ (item[i] = "TODO" \/ removals > 0) /\ ClaimFile(i)
    \/ plan = Ending(i)
    \/ plan = <<ClaimDir(i, "NONE")>> /\ ~ ClaimFile(i)

PlanOK ==
    /\ plan = <<>> \/ \E i \in Items : PlanOf(i)
    /\ sweep # {} /\ plan # <<>> => Len(plan) = 2 /\ Head(plan).file = "claim"
    /\ \A i \in Items : item[i] = "TORN" => \E s \in Statuses : plan = <<Item(i, s)>>

\* Only work that is to do has a claim, or is just finished, or its claim outlived
\* the item file.
ClaimsOK ==
    \A i \in Items : ClaimFile(i) =>
        /\ DependenciesDone(i)
        /\ \/ item[i] = "TODO"
           \/ removals > 0
           \/ item[i] \in {"DONE", "BLOCKED"} /\ plan = Ending(i)

GraphOK ==
    /\ Acyclic([i \in Files |-> needs[i]])
    /\ removals = 0 => \A i \in Files : \A d \in needs[i] : item[d] # "NONE"

FilesInv == FilesTyped /\ PlanOK /\ ClaimsOK /\ GraphOK

-----------------------------------------------------------------------------
(* The steps keep the invariant of the files *)

\* Any set of ids has a least one.
LEMMA MinMember ==
    ASSUME NEW S, S \subseteq Items, S # {}
    PROVE  Min(S) \in S
<1> DEFINE R == OpToRel(<, Nat)
<1>1. S \subseteq Nat
  BY ItemsAssumption
<1>2. \E x \in S : \A y \in S : ~ (<<y, x>> \in R)
  <2>1. IsWellFoundedOn(R, Nat)
    BY NatLessThanWellFounded
  <2> HIDE DEF R
  <2> QED
    BY <1>1, <2>1, WFMin
<1>3. \E x \in S : \A y \in S : x <= y
  <2>1. \A x, y \in Nat : y < x => <<y, x>> \in R
    BY DEF OpToRel
  <2>2. PICK x \in S : \A y \in S : ~ (<<y, x>> \in R)
    BY <1>2
  <2> HIDE DEF R
  <2>3. \A y \in S : ~ (y < x)
    BY <1>1, <2>1, <2>2
  <2> QED
    BY <1>1, <2>3
<1> QED
  BY <1>3 DEF Min

\* A part of a graph without a circle has none.
LEMMA PartAcyclic ==
    ASSUME NEW f, NEW G, NEW H, H \subseteq G, Acyclic([i \in G |-> f[i]])
    PROVE  Acyclic([i \in H |-> f[i]])
  BY DEF Acyclic

\* The lists of writes, taken apart.
LEMMA Taken ==
    /\ \A a : <<a>> # <<>> /\ Head(<<a>>) = a /\ Tail(<<a>>) = <<>>
    /\ \A a, b : /\ <<a, b>> # <<>> /\ Head(<<a, b>>) = a /\ Tail(<<a, b>>) = <<b>>
                 /\ Len(<<a, b>>) = 2
    /\ \A a, b, c : /\ <<a, b, c>> # <<>> /\ Head(<<a, b, c>>) = a
                    /\ Tail(<<a, b, c>>) = <<b, c>> /\ <<a>> \o <<b, c>> = <<a, b, c>>
<1>1. \A a : <<a>> # <<>> /\ Head(<<a>>) = a /\ Tail(<<a>>) = <<>>
  OBVIOUS
<1>2. \A a, b : /\ <<a, b>> # <<>> /\ Head(<<a, b>>) = a /\ Tail(<<a, b>>) = <<b>>
                 /\ Len(<<a, b>>) = 2
  OBVIOUS
<1>3. \A a, b, c : <<a, b, c>> # <<>> /\ Head(<<a, b, c>>) = a
  OBVIOUS
<1>4. \A a, b, c : Tail(<<a, b, c>>) = <<b, c>>
  OBVIOUS
<1>5. \A a, b, c : <<a>> \o <<b, c>> = <<a, b, c>>
  <2> TAKE a, b, c
  <2> DEFINE s == <<a>>
             t == <<b, c>>
             u == <<a, b, c>>
  <2>1. s \in Seq({a, b, c}) /\ t \in Seq({a, b, c}) /\ u \in Seq({a, b, c})
    OBVIOUS
  <2>2. /\ Len(s) = 1 /\ Len(t) = 2 /\ Len(u) = 3
        /\ s[1] = a /\ t[1] = b /\ t[2] = c
        /\ u[1] = a /\ u[2] = b /\ u[3] = c
    OBVIOUS
  <2> HIDE DEF s, t, u
  <2>3. /\ s \o t \in Seq({a, b, c}) /\ Len(s \o t) = 3
        /\ \A k \in 1 .. 3 : (s \o t)[k] = IF k <= 1 THEN s[k] ELSE t[k - 1]
    <3>1. /\ s \o t \in Seq({a, b, c})
          /\ Len(s \o t) = Len(s) + Len(t)
          /\ \A k \in 1 .. Len(s) + Len(t) :
               (s \o t)[k] = IF k <= Len(s) THEN s[k] ELSE t[k - Len(s)]
      BY <2>1, ConcatProperties, Zenon
    <3>2. Len(s) + Len(t) = 3
      BY <2>2
    <3> QED
      BY <2>2, <3>1, <3>2, Zenon
  <2>4. \A k \in 1 .. 3 : (s \o t)[k] = u[k]
    BY <2>2, <2>3
  <2>5. s \o t = u
    BY <2>1, <2>2, <2>3, <2>4, SeqEqual
  <2> QED
    BY <2>5 DEF s, t, u
<1> QED
  BY <1>1, <1>2, <1>3, <1>4, <1>5

\* Items and claims are told apart.
LEMMA Fields ==
    ASSUME NEW i, NEW s
    PROVE  /\ Item(i, s).file = "item" /\ Item(i, s).of = i /\ Item(i, s).to = s
           /\ ClaimDir(i, s).file = "claim" /\ ClaimDir(i, s).of = i /\ ClaimDir(i, s).to = s
  BY DEF Item, ClaimDir

\* The files are in order at the start, and each step of another process keeps them so.
LEMMA FilesFirst == ReadersInit => FilesInv
<1> SUFFICES ASSUME ReadersInit PROVE FilesInv
  OBVIOUS
<1>1. FilesTyped
  BY DEF ReadersInit, FilesTyped
<1>2. PlanOK /\ ClaimsOK
  BY DEF ReadersInit, PlanOK, ClaimsOK, ClaimFile, DependenciesDone
<1>3. GraphOK
  <2>1. Files = Known
    BY DEF ReadersInit, Files, Coming, Known, Present
  <2> QED
    BY <2>1 DEF ReadersInit, GraphOK, Graph, Complete, Known, Present
<1> QED
  BY <1>1, <1>2, <1>3 DEF FilesInv

\* A lease that ends changes no file that matters here.
LEMMA FilesExpire ==
    ASSUME FilesInv, NEW i \in Items, Expire(i)
    PROVE  FilesInv'
<1> USE DEF FilesInv, Expire
<1>1. FilesTyped'
  BY DEF FilesTyped
<1>2. \A j \in Items : ClaimFile(j)' = ClaimFile(j)
  BY DEF FilesTyped, ClaimFile
<1>3. PlanOK'
  <2>1. \A j \in Items : PlanOf(j) => PlanOf(j)'
    BY <1>2 DEF PlanOf, Gone, DependenciesDone, Ending
  <2> QED
    BY <2>1 DEF PlanOK
<1>4. ClaimsOK'
  BY <1>2 DEF ClaimsOK, DependenciesDone, Ending
<1>5. GraphOK'
  BY DEF GraphOK, Files, Coming
<1> QED
  BY <1>1, <1>3, <1>4, <1>5

\* A deleted item file takes its dependencies out of the graph.
LEMMA FilesDelete ==
    ASSUME FilesInv, NEW i \in Items, DeleteItem(i)
    PROVE  FilesInv'
<1> USE DEF FilesInv, DeleteItem
<1>1. FilesTyped' /\ removals' > 0
  BY DEF FilesTyped
<1>2. /\ \A j \in Items : j # i => item'[j] = item[j]
      /\ item'[i] = "NONE" /\ item[i] \in {"TODO", "BLOCKED", "DONE"}
  BY DEF FilesTyped, Present
<1>3. PlanOK'
  <2>1. \A j \in Items : PlanOf(j) => PlanOf(j)'
    BY <1>1, <1>2 DEF FilesTyped, PlanOf, Gone, DependenciesDone, ClaimFile, Ending
  <2> QED
    BY <1>2, <2>1 DEF PlanOK
<1>4. ClaimsOK'
  BY <1>1, <1>2 DEF ClaimsOK, DependenciesDone, ClaimFile
<1>5. GraphOK'
  <2>1. Files' \subseteq Files
    BY <1>2 DEF Files, Coming
  <2> QED
    BY <1>1, <2>1, PartAcyclic DEF GraphOK
<1> QED
  BY <1>1, <1>3, <1>4, <1>5

\* Recovery archives a claim whose item stays.
LEMMA FilesSweep ==
    ASSUME FilesInv, Sweep
    PROVE  FilesInv'
<1> DEFINE i == Min(sweep)
<1>1. i \in Items /\ i \in sweep
  BY MinMember DEF FilesInv, FilesTyped, Sweep
<1>2. /\ \/ ClaimFile(i) /\ claim' = [claim EXCEPT ![i] = "HUSK"] /\ sweep' = sweep
         \/ ~ ClaimFile(i) /\ claim' = [claim EXCEPT ![i] = "NONE"] /\ sweep' = sweep \ {i}
      /\ UNCHANGED <<item, needs, journal, plan, removals>>
  <2>1. Archiving(i)[1].to = "HUSK" /\ Archiving(i)[2].to = "NONE"
    BY Fields DEF Archiving
  <2> QED
    BY <2>1 DEF Sweep
<1> HIDE DEF i
<1> USE DEF FilesInv
<1>3. FilesTyped'
  BY <1>1, <1>2 DEF FilesTyped
<1>4. \A j \in Items : ClaimFile(j)' => ClaimFile(j)
  BY <1>1, <1>2 DEF FilesTyped, ClaimFile
<1>5. PlanOK'
  <2>1. ASSUME NEW j \in Items, PlanOf(j), Len(plan) = 2, Head(plan).file = "claim"
        PROVE  PlanOf(j)'
    <3>1. \/ /\ plan = <<ClaimDir(j, "HUSK"), ClaimDir(j, "LIVE")>>
             /\ (item[j] = "TODO" \/ Gone(j)) /\ DependenciesDone(j)
             /\ ClaimFile(j) => j \in sweep
          \/ plan = Ending(j)
      BY <2>1, Taken, Fields DEF PlanOf
    <3> QED
      BY <1>1, <1>2, <1>4, <3>1 DEF PlanOf, Gone, DependenciesDone, FilesTyped, ClaimFile,
                                    Ending
  <2>2. plan # <<>> => Len(plan) = 2 /\ Head(plan).file = "claim"
    BY <1>1 DEF PlanOK
  <2>3. UNCHANGED plan
    BY <1>2
  <2>4. \A j \in Items : item'[j] = "TORN" => \E s \in Statuses : plan' = <<Item(j, s)>>
    BY <1>2 DEF PlanOK
  <2> QED
    BY <2>1, <2>2, <2>3, <2>4 DEF PlanOK
<1>6. ClaimsOK'
  BY <1>2, <1>4 DEF ClaimsOK, DependenciesDone, Ending
<1>7. GraphOK'
  BY <1>2 DEF GraphOK, Files, Coming
<1> QED
  BY <1>3, <1>5, <1>6, <1>7

\* A write, for each of the things that are about to be written.
LEMMA FilesWrite ==
    ASSUME FilesInv, Write
    PROVE  FilesInv'
<1> USE DEF FilesInv
<1>1. PICK i \in Items : PlanOf(i)
  BY DEF Write, PlanOK
<1>2. /\ UNCHANGED <<needs, journal, sweep, removals>>
      /\ sweep = {} /\ sweep' = {} /\ plan' = Tail(plan)
  BY DEF Write
<1>3. \A s : Head(plan) = Item(i, s) =>
         item' = [item EXCEPT ![i] = s] /\ claim' = claim
  BY Fields DEF Write
<1>4. \A s : Head(plan) = ClaimDir(i, s) =>
         claim' = [claim EXCEPT ![i] = s] /\ item' = item
  BY Fields DEF Write
<1>5. /\ \A j \in Items : item[j] = "TORN" => \E s \in Statuses : plan = <<Item(j, s)>>
      /\ \A j \in Items : ClaimFile(j) =>
           /\ DependenciesDone(j)
           /\ \/ item[j] = "TODO"
              \/ removals > 0
              \/ item[j] \in {"DONE", "BLOCKED"} /\ plan = Ending(j)
  BY DEF PlanOK, ClaimsOK
<1> DEFINE Done ==
      /\ FilesTyped'
      /\ plan' = <<>> \/ PlanOf(i)'
      /\ \A j \in Items : j # i => item'[j] = item[j] /\ claim'[j] = claim[j]
      /\ item[i] # "NONE" => item'[i] # "NONE"
      /\ item[i] = "DONE" /\ removals = 0 => item'[i] = "DONE"
      /\ item'[i] = "TORN" => \E s \in Statuses : plan' = <<Item(i, s)>>
      /\ ClaimFile(i)' =>
           /\ DependenciesDone(i)'
           /\ \/ item'[i] = "TODO"
              \/ removals > 0
              \/ item'[i] \in {"DONE", "BLOCKED"} /\ plan' = Ending(i)
      /\ Files' = Files
<1>6. ASSUME Done
       PROVE  FilesInv'
  <2>2. removals = 0 => \A j \in Items : item[j] = "DONE" => item'[j] = "DONE"
    BY <1>6
  <2>3. /\ plan # <<>> /\ Head(plan).of = i
        /\ \A j \in Items : plan = Ending(j) => j = i
    BY <1>1, Taken, Fields DEF PlanOf, Ending
  <2>1. PlanOK'
    <3>1. \A j \in Items : item'[j] = "TORN" => j = i
      BY <1>5, <1>6, <2>3, Taken, Fields
    <3> QED
      BY <1>1, <1>2, <1>6, <3>1 DEF PlanOK
  <2>4. ASSUME NEW j \in Items, j # i, ClaimFile(j)'
        PROVE  /\ DependenciesDone(j)'
               /\ item'[j] = "TODO" \/ removals > 0
    <3>1. ClaimFile(j) /\ item'[j] = item[j]
      BY <1>6, <2>4 DEF ClaimFile
    <3>2. DependenciesDone(j)'
      BY <1>2, <1>5, <2>2, <3>1 DEF DependenciesDone, FilesTyped
    <3> QED
      BY <1>5, <2>3, <2>4, <3>1, <3>2
  <2>5. ClaimsOK'
    BY <1>2, <1>6, <2>4 DEF ClaimsOK
  <2>6. GraphOK'
    <3>1. \A j \in Items : item[j] # "NONE" => item'[j] # "NONE"
      BY <1>6
    <3> QED
      BY <1>2, <1>6, <3>1 DEF GraphOK, FilesTyped, Files, Coming
  <2> QED
    BY <1>6, <2>1, <2>5, <2>6
<1>7. CASE /\ \E s \in Statuses : plan = <<Item(i, "TORN"), Item(i, s)>>
           /\ item[i] = "NONE"
  <2> PICK s \in Statuses : plan = <<Item(i, "TORN"), Item(i, s)>>
    BY <1>7
  <2>1. /\ item' = [item EXCEPT ![i] = "TORN"] /\ claim' = claim
        /\ plan' = <<Item(i, s)>>
    BY <1>2, <1>3, <1>7, Taken
  <2>2. FilesTyped'
    BY <1>2, <2>1 DEF FilesTyped
  <2>3. /\ \A j \in Items : j # i => item'[j] = item[j] /\ claim'[j] = claim[j]
        /\ item'[i] = "TORN" /\ ClaimFile(i)' = ClaimFile(i)
    BY <2>1 DEF FilesTyped, ClaimFile
  <2>4. Coming = {i}
    BY <1>7, Taken, Fields DEF Coming
  <2>5. Files' = Files
    BY <1>7, <2>1, <2>3, <2>4, Taken, Fields DEF Files, Coming
  <2>6. plan' = <<>> \/ PlanOf(i)'
    BY <1>7, <1>2, <2>1, <2>3 DEF PlanOf, ClaimFile
  <2>7. plan # Ending(i)
    BY <1>7, Taken, Fields DEF Ending
  <2>8. ClaimFile(i)' => removals > 0 /\ DependenciesDone(i)'
    BY <1>7, <1>2, <1>5, <2>3, <2>7 DEF DependenciesDone, FilesTyped
  <2>9. Done
    BY <1>7, <2>1, <2>2, <2>3, <2>5, <2>6, <2>8 DEF Gone
  <2> HIDE DEF Done
  <2> QED
    BY <1>6, <2>9
<1>8. CASE /\ \E s \in Statuses : plan = <<Item(i, s)>>
           /\ item[i] = "TORN"
  <2> PICK s \in Statuses : plan = <<Item(i, s)>>
    BY <1>8
  <2>1. /\ item' = [item EXCEPT ![i] = s] /\ claim' = claim
        /\ plan' = <<>>
    BY <1>2, <1>3, <1>8, Taken
  <2>2. FilesTyped'
    BY <1>2, <2>1 DEF FilesTyped, Statuses
  <2>3. /\ \A j \in Items : j # i => item'[j] = item[j] /\ claim'[j] = claim[j]
        /\ item'[i] = s /\ ClaimFile(i)' = ClaimFile(i)
    BY <2>1 DEF FilesTyped, ClaimFile
  <2>4. Coming = {i}
    BY <1>8, Taken, Fields DEF Coming
  <2>5. Files' = Files
    BY <1>8, <2>1, <2>3, <2>4, Taken, Fields DEF Files, Coming, Statuses
  <2>6. plan' = <<>> \/ PlanOf(i)'
    BY <1>8, <1>2, <2>1, <2>3 DEF PlanOf, ClaimFile
  <2>7. plan # Ending(i)
    BY <1>8, Taken, Fields DEF Ending
  <2>8. ClaimFile(i)' => removals > 0 /\ DependenciesDone(i)'
    BY <1>8, <1>2, <1>5, <2>3, <2>7 DEF DependenciesDone, FilesTyped
  <2>9. Done
    BY <1>8, <2>1, <2>2, <2>3, <2>5, <2>6, <2>8 DEF Gone, Statuses
  <2> HIDE DEF Done
  <2> QED
    BY <1>6, <2>9
<1>9. CASE /\ plan = <<Item(i, "TODO")>>
           /\ item[i] = "BLOCKED" \/ Gone(i)
           /\ ClaimFile(i) => removals > 0
  <2>1. /\ item' = [item EXCEPT ![i] = "TODO"] /\ claim' = claim
        /\ plan' = <<>>
    BY <1>2, <1>3, <1>9, Taken
  <2>2. FilesTyped'
    BY <1>2, <2>1 DEF FilesTyped
  <2>3. /\ \A j \in Items : j # i => item'[j] = item[j] /\ claim'[j] = claim[j]
        /\ item'[i] = "TODO" /\ ClaimFile(i)' = ClaimFile(i)
    BY <2>1 DEF FilesTyped, ClaimFile
  <2>4. Coming = {i}
    BY <1>9, Taken, Fields DEF Coming
  <2>5. Files' = Files
    BY <1>9, <2>1, <2>3, <2>4, Taken, Fields DEF Files, Coming
  <2>6. plan' = <<>> \/ PlanOf(i)'
    BY <1>9, <1>2, <2>1, <2>3 DEF PlanOf, ClaimFile
  <2>7. plan # Ending(i)
    BY <1>9, Taken, Fields DEF Ending
  <2>8. ClaimFile(i)' => removals > 0 /\ DependenciesDone(i)'
    BY <1>9, <1>2, <2>3 DEF DependenciesDone, FilesTyped
  <2>9. Done
    BY <1>9, <2>1, <2>2, <2>3, <2>5, <2>6, <2>8 DEF Gone
  <2> HIDE DEF Done
  <2> QED
    BY <1>6, <2>9
<1>10. CASE /\ plan = <<ClaimDir(i, "HUSK"), ClaimDir(i, "LIVE")>>
            /\ item[i] = "TODO" \/ Gone(i)
            /\ DependenciesDone(i)
  <2>1. /\ claim' = [claim EXCEPT ![i] = "HUSK"] /\ item' = item
        /\ plan' = <<ClaimDir(i, "LIVE")>>
    <3>1. Head(plan) = ClaimDir(i, "HUSK") /\ Tail(plan) = <<ClaimDir(i, "LIVE")>>
      BY <1>10, Taken
    <3> QED
      BY <1>2, <1>4, <3>1
  <2>2. FilesTyped'
    BY <1>2, <2>1 DEF FilesTyped
  <2>3. /\ \A j \in Items : j # i => item'[j] = item[j] /\ claim'[j] = claim[j]
        /\ item'[i] = item[i] /\ claim'[i] = "HUSK"
    BY <2>1 DEF FilesTyped
  <2>4. item[i] # "TORN"
    <3>1. Head(plan).file = "claim"
      BY <1>10, Taken, Fields
    <3> QED
      BY <1>5, <3>1, Taken, Fields
  <2>5. Files' = Files
    <3>1. Head(plan).file = "claim" /\ Head(plan').file = "claim"
      BY <1>10, <2>1, Taken, Fields
    <3> QED
      BY <2>1, <3>1 DEF Files, Coming
  <2>6. plan' = <<>> \/ PlanOf(i)'
    BY <1>10, <1>2, <2>1, <2>3 DEF PlanOf, ClaimFile, Gone, DependenciesDone
  <2>8. ~ ClaimFile(i)'
    BY <2>3 DEF ClaimFile
  <2>9. Done
    BY <1>10, <2>1, <2>2, <2>3, <2>4, <2>5, <2>6, <2>8 DEF Gone
  <2> HIDE DEF Done
  <2> QED
    BY <1>6, <2>9
<1>11. CASE /\ plan = <<ClaimDir(i, "LIVE")>>
            /\ item[i] = "TODO" \/ Gone(i) \/ (ClaimFile(i) /\ removals > 0)
            /\ DependenciesDone(i)
  <2>1. /\ claim' = [claim EXCEPT ![i] = "LIVE"] /\ item' = item
        /\ plan' = <<>>
    BY <1>2, <1>4, <1>11, Taken
  <2>2. FilesTyped'
    BY <1>2, <2>1 DEF FilesTyped
  <2>3. /\ \A j \in Items : j # i => item'[j] = item[j] /\ claim'[j] = claim[j]
        /\ item'[i] = item[i] /\ claim'[i] = "LIVE"
    BY <2>1 DEF FilesTyped
  <2>4. item[i] # "TORN"
    BY <1>11, <1>5, Taken, Fields
  <2>5. Files' = Files
    BY <1>11, <2>1, Taken, Fields DEF Files, Coming
  <2>6. plan' = <<>> \/ PlanOf(i)'
    BY <1>11, <1>2, <2>1, <2>3 DEF PlanOf, ClaimFile, Gone, DependenciesDone
  <2>8. DependenciesDone(i)'
    BY <1>2, <1>11, <2>1 DEF DependenciesDone
  <2>9. Done
    BY <1>11, <2>1, <2>2, <2>3, <2>4, <2>5, <2>6, <2>8 DEF Gone
  <2> HIDE DEF Done
  <2> QED
    BY <1>6, <2>9
<1>12. CASE /\ \E s \in {"DONE", "BLOCKED"} :
                 plan = <<Item(i, s), ClaimDir(i, "HUSK"), ClaimDir(i, "NONE")>>
            /\ (item[i] = "TODO" \/ removals > 0) /\ ClaimFile(i)
  <2> PICK s \in {"DONE", "BLOCKED"} :
          plan = <<Item(i, s), ClaimDir(i, "HUSK"), ClaimDir(i, "NONE")>>
    BY <1>12
  <2>1. /\ item' = [item EXCEPT ![i] = s] /\ claim' = claim
        /\ plan' = Ending(i)
    BY <1>2, <1>3, <1>12, Taken DEF Ending
  <2>2. FilesTyped'
    BY <1>2, <2>1 DEF FilesTyped
  <2>3. /\ \A j \in Items : j # i => item'[j] = item[j] /\ claim'[j] = claim[j]
        /\ item'[i] = s /\ ClaimFile(i)' = ClaimFile(i)
    BY <2>1 DEF FilesTyped, ClaimFile
  <2>4. Coming = {i}
    BY <1>12, Taken, Fields DEF Coming
  <2>5. Files' = Files
    BY <1>12, <2>1, <2>3, <2>4, Taken, Fields DEF Files, Coming, Ending
  <2>6. plan' = <<>> \/ PlanOf(i)'
    BY <1>12, <1>2, <2>1, <2>3 DEF PlanOf, ClaimFile
  <2>7. plan # Ending(i)
    BY <1>12, Taken, Fields DEF Ending
  <2>8. DependenciesDone(i)'
    BY <1>2, <1>5, <1>12, <2>3 DEF DependenciesDone, FilesTyped
  <2>9. Done
    BY <1>12, <2>1, <2>2, <2>3, <2>5, <2>6, <2>8 DEF Gone
  <2> HIDE DEF Done
  <2> QED
    BY <1>6, <2>9
<1>13. CASE plan = Ending(i)
  <2>1. /\ claim' = [claim EXCEPT ![i] = "HUSK"] /\ item' = item
        /\ plan' = <<ClaimDir(i, "NONE")>>
    BY <1>2, <1>4, <1>13, Taken DEF Ending
  <2>2. FilesTyped'
    BY <1>2, <2>1 DEF FilesTyped
  <2>3. /\ \A j \in Items : j # i => item'[j] = item[j] /\ claim'[j] = claim[j]
        /\ item'[i] = item[i] /\ claim'[i] = "HUSK"
    BY <2>1 DEF FilesTyped
  <2>4. item[i] # "TORN"
    BY <1>13, <1>5, Taken, Fields DEF Ending
  <2>5. Files' = Files
    BY <1>13, <2>1, Taken, Fields DEF Files, Coming, Ending
  <2>6. plan' = <<>> \/ PlanOf(i)'
    BY <1>13, <1>2, <2>1, <2>3 DEF PlanOf, ClaimFile, Gone, DependenciesDone
  <2>8. ~ ClaimFile(i)'
    BY <2>3 DEF ClaimFile
  <2>9. Done
    BY <1>13, <2>1, <2>2, <2>3, <2>4, <2>5, <2>6, <2>8 DEF Gone
  <2> HIDE DEF Done
  <2> QED
    BY <1>6, <2>9
<1>14. CASE plan = <<ClaimDir(i, "NONE")>> /\ ~ ClaimFile(i)
  <2>1. /\ claim' = [claim EXCEPT ![i] = "NONE"] /\ item' = item
        /\ plan' = <<>>
    BY <1>2, <1>4, <1>14, Taken
  <2>2. FilesTyped'
    BY <1>2, <2>1 DEF FilesTyped
  <2>3. /\ \A j \in Items : j # i => item'[j] = item[j] /\ claim'[j] = claim[j]
        /\ item'[i] = item[i] /\ claim'[i] = "NONE"
    BY <2>1 DEF FilesTyped
  <2>4. item[i] # "TORN"
    BY <1>14, <1>5, Taken, Fields
  <2>5. Files' = Files
    BY <1>14, <2>1, Taken, Fields DEF Files, Coming
  <2>6. plan' = <<>> \/ PlanOf(i)'
    BY <1>14, <1>2, <2>1, <2>3 DEF PlanOf, ClaimFile, Gone, DependenciesDone
  <2>8. ~ ClaimFile(i)'
    BY <2>3 DEF ClaimFile
  <2>9. Done
    BY <1>14, <2>1, <2>2, <2>3, <2>4, <2>5, <2>6, <2>8 DEF Gone
  <2> HIDE DEF Done
  <2> QED
    BY <1>6, <2>9
<1> QED
  BY <1>1, <1>7, <1>8, <1>9, <1>10, <1>11, <1>12, <1>13, <1>14, <1>6 DEF PlanOf

\* An operation that decides what to write.
LEMMA FilesBegin ==
    ASSUME FilesInv, Begin
    PROVE  FilesInv'
<1> USE DEF FilesInv
<1>1. /\ sweep = {} /\ plan = <<>>
      /\ UNCHANGED <<item, claim, journal, removals>>
      /\ \A j \in Items : ClaimFile(j)' = ClaimFile(j)
  BY DEF Begin, ClaimFile
<1>2. /\ \A j \in Items : item[j] # "TORN"
      /\ \A j \in Items : ClaimFile(j) =>
           DependenciesDone(j) /\ (item[j] = "TODO" \/ removals > 0)
  BY <1>1, Taken DEF PlanOK, ClaimsOK, Ending
<1>3. Files = {j \in Items : item[j] # "NONE"}
  BY <1>1 DEF Files, Coming
<1>4. ASSUME UNCHANGED needs, sweep' \subseteq Items, Coming' \subseteq Files,
             plan' = <<>> \/ \E i \in Items : PlanOf(i)',
             sweep' # {} /\ plan' # <<>> => Len(plan') = 2 /\ Head(plan').file = "claim"
      PROVE  FilesInv'
  <2>1. Files' = Files
    BY <1>1, <1>3, <1>4 DEF Files, Coming
  <2>2. ClaimsOK'
    BY <1>1, <1>2, <1>4 DEF ClaimsOK, DependenciesDone
  <2>3. GraphOK'
    BY <1>1, <1>4, <2>1 DEF GraphOK
  <2>4. PlanOK'
    BY <1>1, <1>2, <1>4 DEF PlanOK
  <2>5. FilesTyped'
    BY <1>1, <1>4 DEF FilesTyped
  <2> QED
    BY <2>2, <2>3, <2>4, <2>5
<1>5. ASSUME NEW i \in Items, NEW of \in SUBSET (Items \ {i}),
             NEW status \in Statuses, Enqueue(i, of, status)
      PROVE  FilesInv'
  <2>1. /\ item[i] = "NONE" /\ needs' = [needs EXCEPT ![i] = of] /\ sweep' = {}
        /\ plan' = <<Item(i, "TORN"), Item(i, status)>>
    BY <1>1, <1>5 DEF Enqueue
  <2>2. FilesTyped'
    BY <1>1, <2>1 DEF FilesTyped
  <2>3. PlanOK'
    BY <1>1, <1>2, <2>1 DEF PlanOK, PlanOf
  <2>4. ClaimsOK'
    <3>1. \A j \in Items : j # i => needs'[j] = needs[j]
      BY <2>1 DEF FilesTyped
    <3> QED
      BY <1>1, <1>2, <2>1, <3>1 DEF ClaimsOK, DependenciesDone, FilesTyped
  <2>5. Coming' = {i} /\ Known = Files /\ Files' = Known \cup {i}
    <3>1. Coming' = {i}
      BY <2>1, Taken, Fields DEF Coming
    <3> QED
      BY <1>1, <1>2, <1>3, <3>1 DEF Files, Known, Present
  <2>6. GraphOK'
    <3> DEFINE g == [j \in Known \cup {i} |-> IF j = i THEN of ELSE needs[j]]
               h == [j \in Files' |-> needs'[j]]
    <3>1. Complete(g) /\ Acyclic(g)
      BY <1>5 DEF Enqueue, Accepted
    <3>2. g = h
      BY <2>1, <2>5 DEF FilesTyped, Known
    <3>3. i \notin of /\ of \subseteq Known
      BY <3>1 DEF Complete
    <3>4. ASSUME removals = 0, NEW j \in Files', NEW d \in needs'[j]
          PROVE  item[d] # "NONE"
      BY <1>3, <2>1, <2>5, <3>3, <3>4 DEF GraphOK, FilesTyped, Known, Present
    <3>5. Acyclic(h)
      BY <3>1, <3>2
    <3> HIDE DEF g
    <3> QED
      BY <1>1, <3>4, <3>5 DEF GraphOK
  <2> QED
    BY <2>2, <2>3, <2>4, <2>6
<1>6. ASSUME NEW i \in Items, Claim(i)
      PROVE  FilesInv'
  <2>1. UNCHANGED needs /\ sweep' = Recoverable /\ sweep' \subseteq Items
    BY <1>6 DEF Claim, Recoverable
  <2>2. CASE plan' = <<>>
    BY <1>4, <2>1, <2>2 DEF Coming
  <2>3. CASE plan' # <<>>
    <3>1. Grantable(i) /\ plan' = <<ClaimDir(i, "HUSK"), ClaimDir(i, "LIVE")>>
      BY <1>6, <2>3 DEF Claim
    <3>2. PlanOf(i)'
      BY <1>1, <2>1, <3>1 DEF PlanOf, Grantable, DependenciesDone, ClaimFile
    <3>3. Len(plan') = 2 /\ Head(plan').file = "claim"
      BY <3>1, Taken, Fields
    <3>4. Coming' = {}
      BY <3>3 DEF Coming
    <3> QED
      BY <1>4, <2>1, <3>2, <3>3, <3>4
  <2> QED
    BY <2>2, <2>3
<1>7. ASSUME NEW i \in Items, Release(i)
      PROVE  FilesInv'
  <2>1. /\ UNCHANGED needs /\ sweep' = {}
        /\ plan' = Ending(i)
    BY <1>1, <1>7 DEF Release, Archiving, Ending
  <2>2. PlanOf(i)'
    BY <2>1 DEF PlanOf, Ending
  <2>3. Coming' = {}
    BY <2>1, Taken, Fields DEF Coming, Ending
  <2> QED
    BY <1>4, <2>1, <2>2, <2>3
<1>8. ASSUME NEW i \in Items, NEW status \in {"DONE", "BLOCKED"}, Finish(i, status)
      PROVE  FilesInv'
  <2>1. /\ UNCHANGED needs /\ sweep' = {} /\ ClaimFile(i) /\ Present(i)
        /\ plan' = <<Item(i, status), ClaimDir(i, "HUSK"), ClaimDir(i, "NONE")>>
    BY <1>1, <1>8, Taken DEF Finish, Rewrite, Archiving, ClaimFile
  <2>2. item[i] = "TODO" \/ removals > 0
    BY <1>2, <2>1
  <2>3. PlanOf(i)'
    BY <1>1, <2>1, <2>2 DEF PlanOf
  <2>4. Coming' = {i}
    BY <2>1, Taken, Fields DEF Coming
  <2> QED
    BY <1>3, <1>4, <2>1, <2>2, <2>3, <2>4 DEF Present
<1>9. ASSUME NEW i \in Items, Unblock(i)
      PROVE  FilesInv'
  <2>1. /\ UNCHANGED needs /\ sweep' = {} /\ item[i] = "BLOCKED"
        /\ plan' = <<Item(i, "TODO")>>
    BY <1>1, <1>9 DEF Unblock, Rewrite
  <2>2. PlanOf(i)'
    BY <1>1, <1>2, <2>1 DEF PlanOf
  <2>3. Coming' = {i}
    BY <2>1, Taken, Fields DEF Coming
  <2> QED
    BY <1>3, <1>4, <2>1, <2>2, <2>3
<1>10. ASSUME RecoverStale
       PROVE  FilesInv'
  <2>1. UNCHANGED <<needs, plan>> /\ sweep' \subseteq Items
    BY <1>10 DEF RecoverStale, Recoverable
  <2> QED
    BY <1>1, <1>4, <2>1 DEF Coming
<1>11. ASSUME NEW i \in Items, Heartbeat(i)
       PROVE  FilesInv'
  <2>1. /\ UNCHANGED needs /\ sweep' = {} /\ ClaimFile(i)
        /\ plan' = <<ClaimDir(i, "LIVE")>>
    BY <1>1, <1>11 DEF Heartbeat, ClaimFile
  <2>2. PlanOf(i)'
    BY <1>1, <1>2, <2>1 DEF PlanOf, DependenciesDone
  <2>3. Coming' = {}
    BY <2>1, Taken, Fields DEF Coming
  <2> QED
    BY <1>4, <2>1, <2>2, <2>3
<1> QED
  BY <1>5, <1>6, <1>7, <1>8, <1>9, <1>10, <1>11 DEF Begin, Statuses

\* Nothing else writes to the files.
LEMMA FilesInvariant == ReadersSpec => []FilesInv
<1>1. FilesInv /\ [ReadersNext]_rvars => FilesInv'
  <2> SUFFICES ASSUME FilesInv, [ReadersNext]_rvars PROVE FilesInv'
    OBVIOUS
  <2>1. ASSUME UNCHANGED <<item, needs, claim, sweep, plan, removals>>,
               journal' \in [Items -> {"NONE", "PREPARED", "RECONCILIATION_REQUIRED", "SYNCED"}]
        PROVE  FilesInv'
    BY <2>1 DEF FilesInv, FilesTyped, PlanOK, PlanOf, Gone, ClaimsOK, DependenciesDone,
                ClaimFile, GraphOK, Files, Coming, Ending
  <2>2. CASE ReadingStep
    BY <2>1, <2>2 DEF ReadingStep, BeginReading, ReadItem, EndReading, LookForClaim,
                      ReadClaim, JudgeClaim, ReadJournal, files, FilesInv, FilesTyped
  <2>3. CASE UNCHANGED rvars
    BY <2>1, <2>3 DEF rvars, files, FilesInv, FilesTyped
  <2>4. ASSUME NEW i \in Items,
               NEW s \in {"PREPARED", "RECONCILIATION_REQUIRED", "SYNCED"}, Record(i, s)
        PROVE  FilesInv'
    BY <2>1, <2>4 DEF Record, FilesInv, FilesTyped
  <2> QED
    BY <2>2, <2>3, <2>4, FilesBegin, FilesSweep, FilesWrite, FilesExpire, FilesDelete
    DEF ReadersNext
<1> QED
  BY <1>1, FilesFirst, PTL DEF ReadersSpec

\* Item files never depend on each other in a circle, whatever is deleted and
\* enqueued anew.
THEOREM NeverCircular == ReadersSpec => []NoCycle
<1>1. FilesInv => NoCycle
  BY PartAcyclic DEF FilesInv, GraphOK, Files, NoCycle, Graph, Known, Present
<1> QED
  BY <1>1, FilesInvariant, PTL

-----------------------------------------------------------------------------
(* A reading: an inductive invariant *)

Reading == {"at", "rest", "looked", "copy", "row", "shown", "state", "outdated", "was", "events"}

Quiet == "removed" \notin reader.events

\* The item was waiting, or was not just what the reading makes of it.
Waited(i) ==
    \/ "WAITING" \in reader.was[i]
    \/ reader.was[i] \cap {"DONE", "BLOCKED"} # {}
    \/ removals > 0 /\ reader.was[i] \cap {"CLAIMED", "STALE_CLAIM"} # {}

\* What RowsWereTrue says of a row.
ShownTrue(i) ==
    \/ reader.shown[i] \in reader.was[i]
    \/ /\ reader.shown[i] \in {"READY", "WAITING", "STALE_CLAIM"}
       /\ reader.was[i] \cap {"DONE", "BLOCKED"} # {}
    \/ /\ reader.shown[i] = "STALE_CLAIM" /\ i \in reader.outdated
       /\ "CLAIMED" \in reader.was[i]
    \/ /\ reader.shown[i] = "WAITING" /\ removals > 0
       /\ reader.was[i] \cap {"CLAIMED", "STALE_CLAIM"} # {}
    \/ /\ reader.shown[i] = "READY" /\ removals > 0
       /\ "WAITING" \in reader.was[i]

ReadingTyped ==
    /\ DOMAIN reader = Reading
    /\ reader.at \in {"items", "claims", "claim", "judge", "journal", "done",
                      "no item", "no graph", "no claim"}
    /\ reader.rest \subseteq Items /\ Found \subseteq Items
    /\ \A i \in Found : /\ reader.row[i].status \in {"TODO", "BLOCKED", "DONE"}
                        /\ reader.row[i].needs \subseteq Items
    /\ DOMAIN reader.shown \subseteq Items
    /\ reader.shown \in [DOMAIN reader.shown ->
                           {"CLAIMED", "STALE_CLAIM", "READY", "WAITING", "BLOCKED", "DONE"}]
    /\ DOMAIN reader.was = Items

\* Where the reading is.
StageOK ==
    /\ reader.at = "items" =>
         /\ reader.rest # {} /\ reader.rest \cap Found = {}
         /\ DOMAIN reader.shown = {} /\ reader.looked = {}
    /\ reader.at = "judge" => reader.copy \in {"LIVE", "STALE", "OLD"}
    /\ reader.at \in {"items", "claims", "claim"} => reader.copy = "NONE"
    /\ reader.at \in {"claim", "judge"} => \E i \in reader.rest : reader.looked = {i}
    /\ reader.at \in {"claims", "claim", "judge"} =>
         /\ reader.rest # {} /\ reader.rest \subseteq Found
         /\ DOMAIN reader.shown = Found \ reader.rest
         /\ reader.looked \subseteq reader.rest
    /\ reader.at \in {"journal", "done"} =>
         DOMAIN reader.shown = Found /\ reader.rest \subseteq Found
    /\ reader.at \in {"claims", "claim", "judge", "journal", "done"} =>
         \A i \in Found : reader.row[i].needs \subseteq Found

\* What the ghosts have noticed.
NoticedOK ==
    /\ \A i \in Items : Now(i) \in reader.was[i]
    /\ \A i \in Items : item[i] = "TORN" => "created" \in reader.events
    /\ ~ Quiet => removals > 0
    /\ reader.at = "no item" => reader.events \cap {"created", "removed"} # {}
    /\ reader.at = "no graph" => removals > 0
    /\ reader.at = "no claim" => "unclaimed" \in reader.events
    /\ reader.at = "claim" =>
         \A i \in reader.looked : ClaimFile(i) \/ "unclaimed" \in reader.events

\* The rows that were read, and the files now.
RowsKept ==
    /\ \A i \in Found : Present(i) /\ reader.row[i].needs = needs[i]
    /\ \A i \in Found : reader.row[i].status # "TODO" => reader.row[i].status \in reader.was[i]
    /\ removals = 0 => \A i \in Found : reader.row[i].status = "DONE" => item[i] = "DONE"
    /\ \A i \in Found :
         reader.row[i].status = "TODO" /\ ClaimFile(i) /\ item[i] # "TODO" =>
             "CLAIMED" \in reader.was[i] \/ (claim[i] = "STALE" /\ plan = Ending(i))

\* A row that will be shown as waiting, by what was read of its dependencies.
RowsWaited ==
    \A i, d \in Found :
        reader.row[i].status = "TODO" /\ d \in needs[i] /\ reader.row[d].status # "DONE" =>
            Waited(i)

\* The same of an item that is not read yet: it may also be in the making.
RestWaited ==
    reader.at = "items" =>
        \A i \in reader.rest :
            /\ item[i] # "NONE"
            /\ \A d \in Found :
                 d \in needs[i] /\ reader.row[d].status # "DONE" =>
                     Waited(i) \/ (item[i] = "TORN" /\ item[d] # "DONE")

ShownOK == \A i \in DOMAIN reader.shown : ShownTrue(i)

\* What the copy of a claim is the copy of.
CopyOK ==
    reader.at = "judge" =>
        \A i \in reader.looked : reader.row[i].status = "TODO" =>
            /\ reader.copy \in {"LIVE", "OLD"} => "CLAIMED" \in reader.was[i]
            /\ reader.copy = "STALE" =>
                 reader.was[i] \cap {"STALE_CLAIM", "DONE", "BLOCKED"} # {}

RowsOK == RowsKept /\ RowsWaited /\ RestWaited /\ CopyOK /\ ShownOK

\* While no item was ever deleted, the reading comes to all that there was.
WholeOK ==
    /\ reader.at = "items" =>
         \A i \in Found \cup reader.rest : needs[i] \subseteq Found \cup reader.rest
    /\ previous # NoSnapshot =>
         /\ reader.at = "items" => DOMAIN previous \subseteq Found \cup reader.rest
         /\ reader.at \in {"claims", "claim", "judge", "journal", "done"} => DOMAIN previous \subseteq Found

ReadingOK ==
    /\ ReadingTyped
    /\ StageOK
    /\ NoticedOK
    /\ Quiet => RowsOK
    /\ removals = 0 => WholeOK

ReadingInv == reader # NoReader => ReadingOK

PreviousInv ==
    previous # NoSnapshot /\ removals = 0 =>
        \A i \in DOMAIN previous : i \in Items /\ item[i] # "NONE"

ReadersInv == FilesInv /\ ReadingInv /\ PreviousInv

-----------------------------------------------------------------------------
(* What happens to the files meanwhile *)

\* The reading goes on, and its ghosts take note.
Seen(event) ==
    reader' # NoReader =>
        /\ reader # NoReader
        /\ DOMAIN reader' = DOMAIN reader /\ DOMAIN reader'.was = DOMAIN reader.was
        /\ reader'.at = reader.at /\ reader'.rest = reader.rest
        /\ reader'.looked = reader.looked /\ reader'.row = reader.row
        /\ reader'.shown = reader.shown /\ reader'.outdated = reader.outdated
        /\ \/ reader'.copy = reader.copy
           \/ reader.copy = "LIVE" /\ reader'.copy = "OLD"
           \/ /\ reader.copy = "LIVE" /\ reader'.copy = "STALE"
              /\ \E i \in reader.looked : claim'[i] = "STALE"
        /\ \A i \in Items : reader.was[i] \subseteq reader'.was[i] /\ Now(i)' \in reader'.was[i]
        /\ reader'.events = reader.events \cup event

\* What stays so as long as nobody deletes an item.
Steady ==
    /\ removals' = removals
    /\ \A i \in Items :
         /\ Present(i) => Present(i)'
         /\ item[i] # "NONE" => item'[i] # "NONE" /\ needs'[i] = needs[i]
         /\ item[i] = "DONE" /\ removals = 0 => item'[i] = "DONE"
         /\ Present(i) /\ ClaimFile(i)' /\ item'[i] # "TODO" =>
              /\ ClaimFile(i)
              /\ item[i] = "TODO" => claim'[i] = claim[i] /\ plan' = Ending(i)
              /\ claim[i] = "STALE" /\ plan = Ending(i) => claim'[i] = "STALE" /\ plan' = plan
         /\ item[i] = "TORN" =>
              \/ item'[i] = "TORN" /\ \A d \in Items : item'[d] = item[d]
              \/ /\ item'[i] \in Statuses /\ claim'[i] = claim[i]
                 /\ \A d \in Items : d # i => item'[d] = item[d]

Happens(event) ==
    /\ previous' = previous
    /\ Steady \/ (removals' > 0 /\ "removed" \in event)
    /\ "removed" \in event => removals' > 0
    /\ \A i \in Items : /\ item'[i] = "TORN" => item[i] = "TORN" \/ "created" \in event
                        /\ ClaimFile(i) => ClaimFile(i)' \/ "unclaimed" \in event

\* Each step of another process is one of the things that may happen to a reading.
LEMMA HappensBegin == ASSUME FilesInv, Begin PROVE Happens({})
<1>1. UNCHANGED <<item, claim, removals, previous>> /\ plan = <<>>
  BY DEF Begin
<1>2. \A i \in Items : item[i] # "NONE" => needs'[i] = needs[i]
  BY DEF Begin, Enqueue, Claim, Heartbeat, Release, Finish, Unblock, RecoverStale, FilesInv,
         FilesTyped
<1>3. \A i \in Items : plan # Ending(i)
  BY <1>1, Taken DEF Ending
<1> QED
  BY <1>1, <1>2, <1>3 DEF Happens, Steady, Present, ClaimFile

\* A swept claim was over or its item finished.
LEMMA HappensSweep ==
    ASSUME FilesInv, Sweep
    PROVE  \E e, z : Happens(e) /\ Notice(e, z)
<1> DEFINE i == Min(sweep)
           w == Archiving(i)[IF ClaimFile(i) THEN 1 ELSE 2]
<1>1. i \in Items
  BY MinMember DEF FilesInv, FilesTyped, Sweep
<1>2. Archiving(i)[1] = ClaimDir(i, "HUSK") /\ Archiving(i)[2] = ClaimDir(i, "NONE")
  BY DEF Archiving
<1>3. w.file = "claim" /\ w.of = i /\ w.to \in {"HUSK", "NONE"}
  BY <1>2, Fields
<1>4. /\ claim' = [claim EXCEPT ![i] = w.to] /\ Notice(EventOf(w), ClaimWritten(w))
      /\ UNCHANGED <<item, needs, plan, removals, previous>>
  BY DEF Sweep
<1>9. w.to = "HUSK" <=> ClaimFile(i)
  BY <1>2, Fields
<1> HIDE DEF i, w
<1>5. EventOf(w) = IF ClaimFile(i) THEN {"unclaimed"} ELSE {}
  BY <1>3, <1>9 DEF EventOf
<1>6. /\ \A j \in Items : ClaimFile(j)' => claim'[j] = claim[j] /\ ClaimFile(j)
      /\ \A j \in Items : ClaimFile(j) => ClaimFile(j)' \/ "unclaimed" \in EventOf(w)
      /\ "removed" \notin EventOf(w)
  BY <1>1, <1>3, <1>4, <1>5 DEF FilesInv, FilesTyped, ClaimFile
<1>7. Steady
  BY <1>4, <1>6 DEF Steady, Present
<1>8. Happens(EventOf(w))
  BY <1>4, <1>6, <1>7 DEF Happens
<1> QED
  BY <1>4, <1>8

\* A written file is the next of the plan.
LEMMA HappensWrite ==
    ASSUME FilesInv, Write
    PROVE  \E e, z : Happens(e) /\ Notice(e, z)
<1> DEFINE w == Head(plan)
<1>1. PICK i \in Items : PlanOf(i)
  BY DEF Write, PlanOK, FilesInv
<1>2. /\ UNCHANGED <<needs, removals, previous>> /\ Notice(EventOf(w), ClaimWritten(w))
      /\ \/ w.file = "item" /\ item' = [item EXCEPT ![w.of] = w.to] /\ UNCHANGED claim
         \/ w.file = "claim" /\ claim' = [claim EXCEPT ![w.of] = w.to] /\ UNCHANGED item
  BY DEF Write
<1>3. \A j \in Items : item[j] = "TORN" => \E s \in Statuses : plan = <<Item(j, s)>>
  BY DEF FilesInv, PlanOK
<1>4. /\ w.of = i
      /\ w.file = "item" =>
           \/ w.to = "TORN" /\ item[i] = "NONE"
           \/ w.to \in Statuses /\ item[i] = "TORN"
           \/ w.to = "TODO" /\ item[i] \in {"NONE", "BLOCKED"}
           \/ /\ w.to \in {"DONE", "BLOCKED"} /\ (item[i] = "TODO" \/ removals > 0)
              /\ ClaimFile(i) /\ plan' = Ending(i)
      /\ w.file = "claim" => \/ w.to \in {"HUSK", "NONE"}
                             \/ w.to = "LIVE" /\ (item[i] \in {"NONE", "TODO"} \/ ClaimFile(i))
  <2>1. plan' = Tail(plan)
    BY DEF Write
  <2>2. ASSUME NEW s \in Statuses, plan = <<Item(i, "TORN"), Item(i, s)>>
        PROVE  w = Item(i, "TORN")
    BY <2>2, Taken
  <2>3. ASSUME NEW s, plan = <<Item(i, s)>>
        PROVE  w = Item(i, s)
    BY <2>3, Taken
  <2>4. plan = <<ClaimDir(i, "HUSK"), ClaimDir(i, "LIVE")>> \/ plan = Ending(i) =>
            w = ClaimDir(i, "HUSK")
    BY Taken DEF Ending
  <2>5. ASSUME NEW s, plan = <<ClaimDir(i, s)>>
        PROVE  w = ClaimDir(i, s)
    BY <2>5, Taken
  <2>6. ASSUME NEW s, plan = <<Item(i, s), ClaimDir(i, "HUSK"), ClaimDir(i, "NONE")>>
        PROVE  w = Item(i, s) /\ plan' = Ending(i)
    BY <2>1, <2>6, Taken DEF Ending
  <2> HIDE DEF w
  <2> QED
    BY <1>1, <2>2, <2>3, <2>4, <2>5, <2>6, Fields DEF PlanOf, Gone
<1>5. \A j \in Items : item[j] = "TORN" => w.file = "item" /\ j = i /\ w.to \in Statuses
  BY <1>3, <1>4, Taken, Fields
<1>8. \A j \in Items : plan = Ending(j) => w.file = "claim" /\ j = i /\ w.to = "HUSK"
  BY <1>4, Taken, Fields DEF Ending
<1> HIDE DEF w
<1>6. CASE w.file = "item"
  <2>1. item' = [item EXCEPT ![i] = w.to] /\ UNCHANGED claim
    BY <1>2, <1>4, <1>6
  <2>2. EventOf(w) = IF item[i] = "NONE" THEN {"created"} ELSE {}
    BY <1>4, <1>6 DEF EventOf
  <2>3. Steady
    <3>1. claim' = claim /\ \A j \in Items : j # i => item'[j] = item[j]
      BY <2>1 DEF FilesInv, FilesTyped
    <3>2. item'[i] = w.to /\ w.to # "NONE" /\ item[i] \in Statuses \cup {"NONE", "TORN"}
      BY <1>4, <1>6, <2>1 DEF FilesInv, FilesTyped, Statuses
    <3>3. /\ item[i] = "TORN" => w.to \in Statuses
          /\ item[i] \in {"TODO", "BLOCKED", "DONE"} => w.to # "TORN"
          /\ item[i] = "DONE" => removals > 0
          /\ item[i] = "TODO" => ClaimFile(i) /\ plan' = Ending(i)
      BY <1>4, <1>6 DEF Statuses
    <3>4. removals > 0 => removals # 0
      BY DEF FilesInv, FilesTyped
    <3>5. ASSUME NEW j \in Items
          PROVE  /\ Present(j) => Present(j)'
                 /\ item[j] # "NONE" => item'[j] # "NONE" /\ needs'[j] = needs[j]
                 /\ item[j] = "DONE" /\ removals = 0 => item'[j] = "DONE"
      BY <1>2, <3>1, <3>2, <3>3, <3>4 DEF Present, Statuses
    <3>6. ASSUME NEW j \in Items, Present(j), ClaimFile(j)', item'[j] # "TODO"
          PROVE  /\ ClaimFile(j) /\ plan # Ending(j)
                 /\ item[j] = "TODO" => claim'[j] = claim[j] /\ plan' = Ending(j)
      BY <1>6, <1>8, <3>1, <3>3, <3>6 DEF ClaimFile
    <3>7. ASSUME NEW j \in Items, item[j] = "TORN"
          PROVE  /\ item'[j] \in Statuses /\ claim'[j] = claim[j]
                 /\ \A d \in Items : d # j => item'[d] = item[d]
      BY <1>5, <3>1, <3>2, <3>7
    <3> QED
      BY <1>2, <3>5, <3>6, <3>7 DEF Steady
  <2>4. Happens(EventOf(w))
    BY <1>2, <1>4, <1>6, <2>1, <2>2, <2>3 DEF Happens, FilesInv, FilesTyped, ClaimFile
  <2> QED
    BY <1>2, <2>4
<1>7. CASE w.file = "claim"
  <2>1. claim' = [claim EXCEPT ![i] = w.to] /\ UNCHANGED item
    BY <1>2, <1>4, <1>7
  <2>2. EventOf(w) = IF w.to = "HUSK" /\ ClaimFile(i) THEN {"unclaimed"} ELSE {}
    BY <1>4, <1>7 DEF EventOf
  <2>4. w.to = "NONE" => ~ ClaimFile(i)
    <3>1. w.to = "NONE" => plan = <<ClaimDir(i, "NONE")>>
      BY <1>1, <1>7, Taken, Fields DEF PlanOf, Ending, w
    <3> QED
      BY <1>1, <3>1, Taken, Fields DEF PlanOf, Ending
  <2>3. Steady
    BY <1>2, <1>4, <1>5, <1>7, <1>8, <2>1
    DEF Steady, Present, FilesInv, FilesTyped, ClaimFile
  <2>5. Happens(EventOf(w))
    BY <1>2, <1>4, <1>7, <2>1, <2>2, <2>3, <2>4 DEF Happens, FilesInv, FilesTyped, ClaimFile
  <2> QED
    BY <1>2, <2>5
<1> QED
  BY <1>2, <1>6, <1>7

\* A lease ends.
LEMMA HappensExpire ==
    ASSUME FilesInv, NEW i \in Items, Expire(i)
    PROVE  Happens({})
  BY DEF Expire, Happens, Steady, Present, FilesInv, FilesTyped, ClaimFile

\* A file is deleted.
LEMMA HappensDelete ==
    ASSUME FilesInv, NEW i \in Items, DeleteItem(i)
    PROVE  Happens({"removed"})
  BY DEF DeleteItem, Happens, Present, FilesInv, FilesTyped, ClaimFile

\* A finalize record is written.
LEMMA HappensRecord ==
    ASSUME NEW i, NEW s, Record(i, s)
    PROVE  Happens({})
  BY DEF Record, Happens, Steady, Present, ClaimFile

\* What was so when a reading began, or became so, was noticed.
LEMMA NoticeSeen ==
    ASSUME ReadingInv, NEW e, NEW z, Notice(e, z)
    PROVE  Seen(e)
<1> SUFFICES ASSUME reader' # NoReader
             PROVE  Seen(e)
  BY DEF Seen
<1>1. /\ reader # NoReader
      /\ reader' = [reader EXCEPT !.copy = Copied(z),
                                 !.was = [i \in Items |-> @[i] \cup {Now(i)'}],
                                 !.events = @ \cup e]
  BY DEF Notice
<1>2. DOMAIN reader = Reading
      /\ DOMAIN reader.was = Items
  BY <1>1 DEF ReadingInv, ReadingOK, ReadingTyped
<1>3. \/ Copied(z) = reader.copy
      \/ reader.copy = "LIVE" /\ Copied(z) = "OLD"
      \/ /\ reader.copy = "LIVE" /\ Copied(z) = "STALE"
         /\ \E i \in reader.looked : claim'[i] = "STALE"
  <2>1. CASE reader.copy # "LIVE"
    BY <2>1 DEF Copied
  <2>2. CASE reader.copy = "LIVE" /\ reader.looked \cap z # {}
    BY <2>2 DEF Copied
  <2>3. CASE /\ reader.copy = "LIVE" /\ reader.looked \cap z = {}
             /\ \E i \in reader.looked : claim'[i] = "STALE"
    BY <2>3 DEF Copied
  <2>4. CASE /\ reader.copy = "LIVE" /\ reader.looked \cap z = {}
             /\ ~ \E i \in reader.looked : claim'[i] = "STALE"
    BY <2>4 DEF Copied
  <2> QED
    BY <2>1, <2>2, <2>3, <2>4
<1> HIDE DEF Copied
<1> QED
  BY <1>1, <1>2, <1>3 DEF Seen, Reading

\* Deciding what to write changes nothing that a reading could see.
LEMMA BeginSeen ==
    ASSUME FilesInv, ReadingInv, Begin
    PROVE  Seen({})
<1> SUFFICES ASSUME reader # NoReader PROVE Seen({})
  BY DEF Seen, Begin
<1>1. UNCHANGED <<item, claim, reader>>
  BY DEF Begin
<1>2. \A i \in Items : item[i] # "NONE" => needs'[i] = needs[i]
  BY HappensBegin DEF Happens, Steady, Begin
<1>3. \A i \in Items : Now(i)' = Now(i)
  BY <1>1, <1>2 DEF Now, Present, Derived
<1> QED
  BY <1>1, <1>3 DEF Seen, ReadingInv, ReadingOK, NoticedOK

\* A dependency that is not done: the item is waiting, or finished, or claimed
\* after a deletion.
LEMMA WaitedNow ==
    ASSUME FilesInv, NEW i \in Items, NEW d \in needs[i], Present(i), item[d] # "DONE",
           Now(i) \in reader.was[i]
    PROVE  Waited(i)
<1>1. d \in Items
  BY DEF FilesInv, FilesTyped
<1>2. item[i] \in {"TODO", "BLOCKED", "DONE"}
  BY DEF Present, FilesInv, FilesTyped
<1>3. CASE item[i] # "TODO"
  <2>1. Now(i) = item[i]
    BY <1>3 DEF Now, Derived
  <2> QED
    BY <1>2, <1>3, <2>1 DEF Waited
<1>4. CASE item[i] = "TODO" /\ ClaimFile(i)
  <2>1. removals > 0
    BY <1>4 DEF FilesInv, FilesTyped, ClaimsOK, DependenciesDone
  <2>2. Now(i) \in {"CLAIMED", "STALE_CLAIM"}
    BY <1>4 DEF Now, Derived, ClaimFile
  <2> QED
    BY <2>1, <2>2 DEF Waited
<1>5. CASE item[i] = "TODO" /\ ~ ClaimFile(i)
  <2>1. Now(i) = "WAITING"
    BY <1>5 DEF Now, Derived, ClaimFile
  <2> QED
    BY <2>1 DEF Waited
<1> QED
  BY <1>2, <1>3, <1>4, <1>5

\* Whatever happens to the files, a reading under way stays right.
LEMMA ReadingDisturbed ==
    ASSUME FilesInv, FilesInv', ReadingInv, PreviousInv, NEW e, Seen(e), Happens(e)
    PROVE  ReadingInv' /\ PreviousInv'
<1>1. PreviousInv'
  BY DEF PreviousInv, Happens, Steady
<1> SUFFICES ASSUME reader' # NoReader
             PROVE  ReadingOK'
  BY <1>1 DEF ReadingInv
<1>2. /\ DOMAIN reader' = DOMAIN reader /\ DOMAIN reader'.was = DOMAIN reader.was
      /\ reader'.at = reader.at /\ reader'.rest = reader.rest
      /\ reader'.looked = reader.looked /\ reader'.row = reader.row
      /\ reader'.shown = reader.shown /\ reader'.outdated = reader.outdated
      /\ \/ reader'.copy = reader.copy
         \/ reader.copy = "LIVE" /\ reader'.copy = "OLD"
         \/ /\ reader.copy = "LIVE" /\ reader'.copy = "STALE"
            /\ \E i \in reader.looked : claim'[i] = "STALE"
      /\ Found' = Found
  BY DEF Seen, Found
<1>3. /\ \A i \in Items : reader.was[i] \subseteq reader'.was[i] /\ Now(i)' \in reader'.was[i]
      /\ reader'.events = reader.events \cup e
  BY DEF Seen
<1>4. ReadingOK /\ reader # NoReader
  BY DEF Seen, ReadingInv
<1>5. ReadingTyped'
  BY <1>2, <1>4 DEF ReadingOK, ReadingTyped, Reading
<1>6. StageOK'
  BY <1>2, <1>4 DEF ReadingOK, StageOK
<1>7. removals > 0 => removals' > 0
  BY DEF Happens, Steady, FilesInv, FilesTyped
<1>8. NoticedOK'
  BY <1>2, <1>3, <1>4, <1>7 DEF ReadingOK, NoticedOK, Happens, Quiet, StageOK, ReadingTyped
<1>9. ASSUME Quiet'
      PROVE  RowsOK'
  <2>1. Quiet /\ Steady /\ RowsOK /\ Found \subseteq Items /\ reader.rest \subseteq Items
    BY <1>3, <1>4, <1>9 DEF Quiet, Happens, ReadingOK, ReadingTyped
  <2>2. \A i \in Items : Waited(i) => Waited(i)'
    BY <1>3, <1>7 DEF Waited
  <2>3. \A i \in Found : Present(i) /\ item[i] # "NONE" /\ item[i] # "TORN"
    BY <2>1 DEF RowsOK, RowsKept, Present
  <2>4. RowsKept'
    <3>1. ASSUME NEW i \in Found
          PROVE  /\ Present(i)' /\ reader'.row[i].needs = needs'[i]
                 /\ reader'.row[i].status # "TODO" => reader'.row[i].status \in reader'.was[i]
                 /\ removals' = 0 /\ reader'.row[i].status = "DONE" => item'[i] = "DONE"
      BY <1>2, <1>3, <2>1, <2>3 DEF RowsOK, RowsKept, Steady
    <3>2. ASSUME NEW i \in Found, reader.row[i].status = "TODO",
                 ClaimFile(i)', item'[i] # "TODO"
          PROVE  "CLAIMED" \in reader'.was[i] \/ (claim'[i] = "STALE" /\ plan' = Ending(i))
      <4>1. /\ ClaimFile(i)
            /\ item[i] = "TODO" => claim'[i] = claim[i] /\ plan' = Ending(i)
            /\ claim[i] = "STALE" /\ plan = Ending(i) => claim'[i] = "STALE" /\ plan' = plan
        BY <2>1, <2>3, <3>2 DEF Steady
      <4>2. CASE item[i] # "TODO"
        BY <1>3, <2>1, <3>2, <4>1, <4>2 DEF RowsOK, RowsKept
      <4>3. CASE item[i] = "TODO" /\ claim[i] = "LIVE"
        <5>1. Now(i) = "CLAIMED"
          BY <4>3 DEF Now, Present, Derived
        <5> QED
          BY <1>3, <1>4, <2>1, <5>1 DEF ReadingOK, NoticedOK
      <4>4. CASE item[i] = "TODO" /\ claim[i] = "STALE"
        BY <4>1, <4>4
      <4> QED
        BY <4>1, <4>2, <4>3, <4>4 DEF ClaimFile
    <3> QED
      BY <1>2, <3>1, <3>2 DEF RowsKept
  <2>5. RowsWaited'
    <3>1. \A i \in Found : needs'[i] = needs[i]
      BY <2>1, <2>3 DEF Steady
    <3> QED
      BY <1>2, <2>1, <2>2, <3>1 DEF RowsOK, RowsWaited
  <2>6. RestWaited'
    <3>1. SUFFICES ASSUME reader.at = "items", NEW i \in reader.rest
                   PROVE  /\ item'[i] # "NONE"
                          /\ \A d \in Found :
                               d \in needs'[i] /\ reader.row[d].status # "DONE" =>
                                   Waited(i)' \/ (item'[i] = "TORN" /\ item'[d] # "DONE")
      BY <1>2 DEF RestWaited
    <3>2. i \in Items /\ item[i] # "NONE" /\ item'[i] # "NONE" /\ needs'[i] = needs[i]
      BY <2>1, <3>1 DEF RowsOK, RestWaited, Steady
    <3>3. ASSUME NEW d \in Found, d \in needs[i], reader.row[d].status # "DONE",
                 ~ Waited(i)'
          PROVE  item'[i] = "TORN" /\ item'[d] # "DONE"
      <4>1. item[i] = "TORN" /\ item[d] # "DONE"
        BY <2>1, <2>2, <3>1, <3>2, <3>3 DEF RowsOK, RestWaited
      <4>2. item'[d] = item[d]
        BY <2>1, <2>3, <4>1, <3>2 DEF Steady
      <4>4. CASE item'[i] \in {"BLOCKED", "DONE"}
        <5>1. Now(i)' = item'[i] /\ Now(i)' \in reader'.was[i]
          BY <1>3, <3>2, <4>4 DEF Now, Present, Derived
        <5> QED
          BY <3>3, <4>4, <5>1 DEF Waited
      <4>3. CASE item'[i] = "TODO"
        <5>1. Present(i)' /\ d \in needs'[i] /\ item'[d] # "DONE" /\ Now(i)' \in reader'.was[i]
          BY <1>3, <3>2, <3>3, <4>1, <4>2, <4>3 DEF Present
        <5>2. CASE removals > 0 /\ ClaimFile(i)'
          <6>1. Now(i)' \in {"CLAIMED", "STALE_CLAIM"}
            BY <4>3, <5>1, <5>2 DEF Now, Derived, ClaimFile
          <6> QED
            BY <1>7, <3>3, <5>1, <5>2, <6>1 DEF Waited
        <5>3. CASE ~ ClaimFile(i)'
          <6>1. Now(i)' = "WAITING"
            BY <4>3, <5>1, <5>3 DEF Now, Derived, ClaimFile
          <6> QED
            BY <3>3, <5>1, <6>1 DEF Waited
        <5>4. ClaimFile(i)' => removals > 0
          BY <2>1, <4>1, <4>3, <3>2 DEF FilesInv, ClaimsOK, Steady, ClaimFile
        <5> QED
          BY <5>2, <5>3, <5>4
      <4> QED
        BY <2>1, <3>2, <4>1, <4>2, <4>3, <4>4 DEF Steady, Statuses
    <3> QED
      BY <3>2, <3>3
  <2>7. ShownOK'
    <3>1. \A i \in DOMAIN reader.shown : i \in Items /\ ShownTrue(i)
      BY <1>4, <2>1 DEF RowsOK, ShownOK, ReadingOK, ReadingTyped
    <3> QED
      BY <1>2, <1>3, <1>7, <3>1 DEF ShownOK, ShownTrue
  <2>8. CopyOK'
    <3>1. SUFFICES ASSUME reader.at = "judge", NEW i \in reader.looked,
                          reader.row[i].status = "TODO"
                   PROVE  /\ reader'.copy \in {"LIVE", "OLD"} => "CLAIMED" \in reader'.was[i]
                          /\ reader'.copy = "STALE" =>
                               reader'.was[i] \cap {"STALE_CLAIM", "DONE", "BLOCKED"} # {}
      BY <1>2 DEF CopyOK
    <3>2. /\ reader.looked = {i} /\ i \in Found /\ i \in Items
          /\ reader.was[i] \subseteq reader'.was[i] /\ Now(i)' \in reader'.was[i]
      BY <1>3, <1>4, <2>1, <3>1 DEF ReadingOK, StageOK
    <3>3. /\ reader.copy \in {"LIVE", "OLD"} => "CLAIMED" \in reader.was[i]
          /\ reader.copy = "STALE" =>
               reader.was[i] \cap {"STALE_CLAIM", "DONE", "BLOCKED"} # {}
      BY <2>1, <3>1 DEF RowsOK, CopyOK
    <3>4. ASSUME claim'[i] = "STALE"
          PROVE  reader'.was[i] \cap {"STALE_CLAIM", "DONE", "BLOCKED"} # {}
      <4>1. Present(i)'
        BY <2>4, <3>2, <1>2 DEF RowsKept
      <4>2. item'[i] \in {"TODO", "BLOCKED", "DONE"}
        BY <3>2, <4>1 DEF FilesInv, FilesTyped, Present
      <4>3. Now(i)' \in {"STALE_CLAIM", "DONE", "BLOCKED"}
        BY <3>4, <4>1, <4>2 DEF Now, Derived
      <4> QED
        BY <3>2, <4>3
    <3> QED
      BY <1>2, <3>2, <3>3, <3>4
  <2> QED
    BY <2>4, <2>5, <2>6, <2>7, <2>8 DEF RowsOK
<1>10. ASSUME removals' = 0
       PROVE  WholeOK'
  <2>1. removals = 0 /\ Steady /\ previous' = previous
    BY <1>10 DEF Happens, Steady
  <2>2. Quiet /\ WholeOK /\ RowsOK /\ Found \subseteq Items /\ reader.rest \subseteq Items
    <3>1. Quiet
      <4>1. ~ Quiet => removals > 0
        BY <1>4, Zenon DEF ReadingOK, NoticedOK
      <4> QED
        BY <2>1, <4>1
    <3> QED
      BY <1>4, <2>1, <3>1 DEF ReadingOK, ReadingTyped
  <2>3. \A i \in Found : needs'[i] = needs[i]
    BY <2>1, <2>2 DEF RowsOK, RowsKept, Present, Steady
  <2>4. reader.at = "items" => \A i \in reader.rest : needs'[i] = needs[i]
    BY <2>1, <2>2 DEF RowsOK, RestWaited, Steady
  <2> QED
    BY <1>2, <2>1, <2>2, <2>3, <2>4 DEF WholeOK
<1> QED
  BY <1>5, <1>6, <1>8, <1>9, <1>10 DEF ReadingOK

-----------------------------------------------------------------------------
(* The steps of the reading *)

\* While the reading moves, the files stay, and with them what was so.
Still ==
    /\ UNCHANGED <<files, previous>>
    /\ reader # NoReader
    /\ reader'.was = reader.was /\ reader'.events = reader.events
    /\ DOMAIN reader' = DOMAIN reader

\* A step that leaves what a reading has read keeps the invariant.
LEMMA StillKeeps ==
    ASSUME Still, ReadingOK
    PROVE  /\ UNCHANGED <<item, needs, claim, journal, plan, removals, previous>>
           /\ \A i \in Items : Now(i)' = Now(i) /\ Present(i)' = Present(i)
                              /\ ClaimFile(i)' = ClaimFile(i)
           /\ \A i \in Items : Waited(i) => Waited(i)'
           /\ Quiet' = Quiet
           /\ Quiet' => RowsOK
           /\ removals = 0 => Quiet' /\ WholeOK
           /\ \A i \in Items : Now(i) \in reader.was[i]
<1>1. UNCHANGED <<item, needs, claim, journal, plan, removals, previous>>
  BY DEF Still, files
<1>2. \A i \in Items : Now(i)' = Now(i) /\ Present(i)' = Present(i)
                     /\ ClaimFile(i)' = ClaimFile(i)
  BY <1>1 DEF Now, Present, Derived, ClaimFile
<1>3. \A i \in Items : Waited(i) => Waited(i)'
  BY <1>1 DEF Still, Waited
<1>4. Quiet' = Quiet
  BY DEF Still, Quiet
<1>5. removals = 0 => Quiet
  <2>1. ~ Quiet => removals > 0
    BY Zenon DEF ReadingOK, NoticedOK
  <2> QED
    BY <2>1
<1> QED
  BY <1>1, <1>2, <1>3, <1>4, <1>5 DEF ReadingOK, NoticedOK

\* A row is added to what is shown.
LEMMA ShowKeeps ==
    ASSUME FilesInv, ReadingOK, reader # NoReader, UNCHANGED <<files, previous>>,
           NEW i \in reader.rest, NEW lease, Show(i, lease),
           \/ reader.at = "claims" /\ ~ ClaimFile(i) /\ lease = "NONE"
           \/ /\ reader.at = "judge" /\ i \in reader.looked
              /\ lease \in {"LIVE", "STALE"} /\ reader.copy \in {lease, "OLD"}
    PROVE  ReadingOK'
<1> DEFINE statusOf == [j \in Found |-> reader.row[j].status]
           derived == Derived(reader.row[i].status, statusOf, reader.row[i].needs, lease)
           shown == [j \in DOMAIN reader.shown \cup {i} |->
                       IF j = i THEN derived ELSE reader.shown[j]]
           outdated == reader.outdated \cup (IF reader.copy = "OLD" THEN {i} ELSE {})
           next == [reader EXCEPT !.shown = shown, !.at = "claims", !.looked = {},
                                  !.copy = "NONE", !.outdated = outdated]
<1>1. /\ DOMAIN reader = Reading
      /\ DOMAIN reader.was = Items
      /\ reader.rest \subseteq Found /\ Found \subseteq Items /\ i \in Found /\ i \in Items
      /\ DOMAIN reader.shown = Found \ reader.rest
      /\ \A j \in Found : reader.row[j].needs \subseteq Found
      /\ \A j \in Found : reader.row[j].status \in {"TODO", "BLOCKED", "DONE"}
  BY DEF ReadingOK, ReadingTyped, StageOK
<1>2. /\ DOMAIN reader' = DOMAIN reader
      /\ reader'.row = reader.row /\ reader'.was = reader.was /\ reader'.events = reader.events
      /\ reader'.shown = shown /\ reader'.looked = {} /\ reader'.copy = "NONE"
      /\ reader'.outdated = outdated
      /\ \/ reader.rest = {i} /\ reader'.at = "journal" /\ reader'.rest = Found
         \/ reader.rest # {i} /\ reader'.at = "claims" /\ reader'.rest = reader.rest \ {i}
  <2>1. reader' = Onwards(next, i, "journal")
    BY DEF Show, Row
  <2> HIDE DEF shown, outdated
  <2>2. DOMAIN next.row = Found
    BY <1>1 DEF Found, Reading
  <2> QED
    BY <1>1, <2>1, <2>2 DEF Onwards, Reading
<1>3. /\ Still /\ Found' = Found
      /\ UNCHANGED <<item, needs, claim, plan, removals, previous>>
  BY <1>2 DEF Still, Found, files
<1>4. derived \in {"CLAIMED", "STALE_CLAIM", "READY", "WAITING", "BLOCKED", "DONE"}
  BY <1>1 DEF Derived
<1>5. /\ DOMAIN shown = DOMAIN reader.shown \cup {i} /\ shown[i] = derived
      /\ \A j \in DOMAIN reader.shown : j # i /\ shown[j] = reader.shown[j]
  BY <1>1
<1>6. ASSUME Quiet
      PROVE  ShownTrue(i)'
  <2>1. RowsOK
    BY <1>6 DEF ReadingOK
  <2>2. /\ Present(i) /\ reader.row[i].needs = needs[i] /\ needs[i] \subseteq Found
        /\ Now(i) \in reader.was[i]
    BY <1>1, <2>1 DEF RowsOK, RowsKept, ReadingOK, NoticedOK
  <2>3. item[i] \in {"TODO", "BLOCKED", "DONE"}
    BY <1>1, <2>2 DEF Present, FilesInv, FilesTyped
  <2>4. item[i] # "TODO" => reader.was[i] \cap {"DONE", "BLOCKED"} # {}
    <3>1. item[i] # "TODO" => Now(i) = item[i]
      BY <2>2 DEF Now, Derived
    <3> QED
      BY <2>2, <2>3, <3>1
  <2>5. ASSUME \/ derived \in reader.was[i]
               \/ /\ derived \in {"READY", "WAITING", "STALE_CLAIM"}
                  /\ reader.was[i] \cap {"DONE", "BLOCKED"} # {}
               \/ /\ derived = "STALE_CLAIM" /\ i \in outdated
                  /\ "CLAIMED" \in reader.was[i]
               \/ derived = "WAITING" /\ Waited(i)
               \/ derived = "READY" /\ removals > 0 /\ "WAITING" \in reader.was[i]
        PROVE  ShownTrue(i)'
    <3> HIDE DEF derived, outdated
    <3> QED
      BY <1>2, <1>3, <1>5, <2>5 DEF ShownTrue, Waited
  <2>6. CASE reader.row[i].status # "TODO"
    <3>1. derived = reader.row[i].status
      BY <2>6 DEF Derived
    <3>2. derived \in reader.was[i]
      BY <1>1, <2>1, <2>6, <3>1 DEF RowsOK, RowsKept
    <3> QED
      BY <2>5, <3>2
  <2>7. CASE reader.row[i].status = "TODO" /\ lease = "LIVE"
    <3>1. derived = "CLAIMED" /\ reader.copy \in {"LIVE", "OLD"}
      BY <2>7 DEF Derived
    <3>2. derived \in reader.was[i]
      BY <2>1, <2>7, <3>1 DEF RowsOK, CopyOK
    <3> QED
      BY <2>5, <3>2
  <2>8. CASE reader.row[i].status = "TODO" /\ lease = "STALE"
    <3>1. derived = "STALE_CLAIM"
      BY <2>8 DEF Derived
    <3>2. CASE reader.copy = "STALE"
      <4>1. reader.was[i] \cap {"STALE_CLAIM", "DONE", "BLOCKED"} # {}
        BY <2>1, <2>8, <3>2 DEF RowsOK, CopyOK
      <4> QED
        BY <2>5, <3>1, <4>1
    <3>3. CASE reader.copy = "OLD"
      <4>1. "CLAIMED" \in reader.was[i] /\ i \in outdated
        BY <2>1, <2>8, <3>3 DEF RowsOK, CopyOK
      <4> QED
        BY <2>5, <3>1, <4>1
    <3> QED
      BY <2>8, <3>2, <3>3
  <2>9. CASE reader.row[i].status = "TODO" /\ lease = "NONE"
    <3>1. ~ ClaimFile(i)
      BY <2>9
    <3>2. CASE \E d \in needs[i] : reader.row[d].status # "DONE"
      <4>1. derived = "WAITING"
        BY <2>2, <2>9, <3>2 DEF Derived
      <4>2. Waited(i)
        BY <1>1, <2>1, <2>2, <2>9, <3>2 DEF RowsOK, RowsWaited
      <4> QED
        BY <2>5, <4>1, <4>2
    <3>3. CASE \A d \in needs[i] : reader.row[d].status = "DONE"
      <4>1. derived = "READY"
        BY <2>2, <2>9, <3>3 DEF Derived
      <4>2. removals = 0 => \A d \in needs[i] : item[d] = "DONE"
        BY <2>1, <2>2, <3>3 DEF RowsOK, RowsKept
      <4>3. item[i] = "TODO" => Now(i) \in {"READY", "WAITING"}
        BY <2>2, <3>1 DEF Now, Derived, ClaimFile
      <4>4. item[i] = "TODO" /\ removals = 0 => Now(i) = "READY"
        BY <2>2, <3>1, <4>2 DEF Now, Derived, ClaimFile
      <4>5. removals = 0 \/ removals > 0
        BY DEF FilesInv, FilesTyped
      <4> QED
        BY <2>2, <2>4, <2>5, <4>1, <4>3, <4>4, <4>5
    <3> QED
      BY <3>2, <3>3
  <2> QED
    BY <2>6, <2>7, <2>8, <2>9
<1> HIDE DEF derived, outdated
<1>7. ReadingTyped'
  <2>1. shown \in [DOMAIN reader.shown \cup {i} ->
                   {"CLAIMED", "STALE_CLAIM", "READY", "WAITING", "BLOCKED", "DONE"}]
    BY <1>4 DEF ReadingOK, ReadingTyped
  <2> HIDE DEF shown
  <2>2. /\ DOMAIN reader'.shown \subseteq Items
        /\ reader'.shown \in [DOMAIN reader'.shown ->
                   {"CLAIMED", "STALE_CLAIM", "READY", "WAITING", "BLOCKED", "DONE"}]
    BY <1>1, <1>2, <1>5, <2>1
  <2> QED
    BY <1>1, <1>2, <1>3, <2>2 DEF ReadingTyped
<1> HIDE DEF shown
<1>8. StageOK'
  BY <1>1, <1>2, <1>3, <1>5 DEF StageOK
<1>9. NoticedOK'
  BY <1>1, <1>2, <1>3, StillKeeps DEF ReadingOK, NoticedOK
<1>10. Quiet' => RowsOK'
  <2> SUFFICES ASSUME Quiet' PROVE RowsOK'
    OBVIOUS
  <2>1. Quiet /\ RowsOK
    BY <1>3, StillKeeps
  <2>2. RowsKept' /\ RowsWaited'
    BY <1>1, <1>2, <1>3, <2>1, StillKeeps DEF RowsOK, RowsKept, RowsWaited
  <2>3. RestWaited'
    BY <1>2 DEF RestWaited
  <2>4. ShownOK'
    <3>1. \A j \in DOMAIN reader.shown : ShownTrue(j)
      BY <2>1 DEF RowsOK, ShownOK
    <3>2. \A j \in DOMAIN reader.shown : ShownTrue(j)'
      BY <1>2, <1>3, <1>5, <3>1 DEF ShownTrue, outdated
    <3> QED
      BY <1>2, <1>5, <1>6, <2>1, <3>2 DEF ShownOK
  <2>5. CopyOK'
    BY <1>2 DEF CopyOK
  <2> QED
    BY <2>2, <2>3, <2>4, <2>5 DEF RowsOK
<1>11. removals' = 0 => WholeOK'
  BY <1>2, <1>3, StillKeeps DEF WholeOK
<1> QED
  BY <1>7, <1>8, <1>9, <1>10, <1>11 DEF ReadingOK

\* A step that reads and shows no row.
LEMMA MovesOn ==
    ASSUME ReadingOK, Still, StageOK',
           reader'.row = reader.row, reader'.shown = reader.shown, reader'.rest \subseteq Items,
           reader'.outdated = reader.outdated, Quiet => CopyOK',
           \/ reader'.at \in {"no item", "no graph", "no claim"}
           \/ /\ reader'.at \in {"claim", "judge", "journal", "done"}
              /\ reader.at \in {"claims", "claim", "judge", "journal", "done"},
           reader'.at = "no item" => reader.events \cap {"created", "removed"} # {},
           reader'.at = "no graph" => removals > 0,
           reader'.at = "no claim" => "unclaimed" \in reader.events,
           reader'.at = "claim" =>
               \A i \in reader'.looked : i \in Items /\ (ClaimFile(i) \/ "unclaimed" \in reader.events)
    PROVE  ReadingOK'
<1>1. /\ Found' = Found /\ Found \subseteq Items
      /\ reader'.was = reader.was /\ reader'.events = reader.events
      /\ DOMAIN reader.shown \subseteq Items
  BY DEF Found, Still, ReadingOK, ReadingTyped
<1>2. UNCHANGED <<item, needs, claim, plan, removals, previous>>
  BY StillKeeps
<1>3. ReadingTyped'
  BY <1>1 DEF Still, ReadingOK, ReadingTyped
<1>4. NoticedOK'
  <2>1. /\ \A i \in Items : Now(i)' \in reader'.was[i]
        /\ \A i \in Items : item'[i] = "TORN" => "created" \in reader'.events
        /\ ~ Quiet' => removals' > 0
    BY <1>1, <1>2, StillKeeps DEF ReadingOK, NoticedOK
  <2>2. reader'.at = "claim" =>
          \A i \in reader'.looked : ClaimFile(i)' \/ "unclaimed" \in reader'.events
    BY <1>1, StillKeeps
  <2> QED
    BY <1>1, <1>2, <2>1, <2>2 DEF NoticedOK
<1>5. ASSUME Quiet'
      PROVE  RowsOK'
  <2>1. RowsOK
    BY <1>5, StillKeeps
  <2>2. \A i \in Found : Present(i)' = Present(i) /\ (Waited(i) => Waited(i)')
    BY <1>1, StillKeeps
  <2>3. RowsKept'
    <3>1. \A i \in Found : ClaimFile(i)' = ClaimFile(i)
      BY <1>2 DEF ClaimFile
    <3>2. RowsKept
      BY <2>1 DEF RowsOK
    <3> QED
      BY <1>1, <1>2, <2>2, <3>1, <3>2 DEF RowsKept, Ending
  <2>4. RowsWaited'
    BY <1>1, <1>2, <2>1, <2>2 DEF RowsOK, RowsWaited
  <2>5. RestWaited'
    BY DEF RestWaited
  <2>6. ShownOK'
    BY <1>1, <1>2, <2>1 DEF RowsOK, ShownOK, ShownTrue
  <2>7. CopyOK'
    BY <1>5, StillKeeps
  <2> QED
    BY <2>3, <2>4, <2>5, <2>6, <2>7 DEF RowsOK
<1>6. removals' = 0 => WholeOK'
  BY <1>1, <1>2, StillKeeps DEF WholeOK
<1> QED
  BY <1>3, <1>4, <1>5, <1>6 DEF ReadingOK

\* A reading fails for a reason.
LEMMA FailKeeps ==
    ASSUME ReadingOK, reader # NoReader, UNCHANGED <<files, previous>>,
           NEW why \in {"no item", "no graph", "no claim"}, Fails(why),
           why = "no item" => reader.events \cap {"created", "removed"} # {},
           why = "no graph" => removals > 0,
           why = "no claim" => "unclaimed" \in reader.events
    PROVE  ReadingOK'
<1>1. /\ DOMAIN reader = Reading
      /\ reader.rest \subseteq Items
  BY DEF ReadingOK, ReadingTyped
<1>2. /\ DOMAIN reader' = DOMAIN reader
      /\ reader'.row = reader.row /\ reader'.was = reader.was /\ reader'.events = reader.events
      /\ reader'.shown = reader.shown /\ reader'.rest = reader.rest /\ reader'.at = why
      /\ reader'.outdated = reader.outdated
  BY <1>1 DEF Fails, Reading
<1>3. Still
  BY <1>2 DEF Still
<1>4. StageOK' /\ CopyOK'
  BY <1>2 DEF StageOK, CopyOK
<1> QED
  BY <1>1, <1>2, <1>3, <1>4, MovesOn

\* The look for a claim file keeps it,
LEMMA LookKeeps ==
    ASSUME FilesInv, ReadingInv, NEW i \in Items, LookForClaim(i)
    PROVE  ReadingOK'
<1>1. /\ reader # NoReader /\ ReadingOK /\ reader.at = "claims" /\ i \in reader.rest
      /\ UNCHANGED <<files, previous>>
  BY DEF LookForClaim, ReadingAt, ReadingInv
<1>2. CASE ~ ClaimFile(i) /\ Show(i, "NONE")
  BY <1>1, <1>2, ShowKeeps
<1>3. CASE ClaimFile(i) /\ reader' = [reader EXCEPT !.at = "claim", !.looked = {i}]
  <2>1. DOMAIN reader = Reading
    BY <1>1 DEF ReadingOK, ReadingTyped
  <2>2. /\ DOMAIN reader' = DOMAIN reader
        /\ reader'.row = reader.row /\ reader'.was = reader.was /\ reader'.events = reader.events
        /\ reader'.shown = reader.shown /\ reader'.rest = reader.rest /\ reader'.at = "claim"
        /\ reader'.looked = {i} /\ reader'.copy = reader.copy
        /\ reader'.outdated = reader.outdated
    BY <1>3, <2>1 DEF Reading
  <2>3. Still
    BY <1>1, <2>2 DEF Still
  <2>4. StageOK' /\ CopyOK' /\ reader'.rest \subseteq Items
    BY <1>1, <2>2 DEF ReadingOK, ReadingTyped, StageOK, CopyOK, Found
  <2> QED
    BY <1>1, <1>3, <2>2, <2>3, <2>4, MovesOn
<1> QED
  BY <1>2, <1>3 DEF LookForClaim

\* so does the reading of the file,
LEMMA ClaimReadKeeps ==
    ASSUME FilesInv, ReadingInv, NEW i \in Items, ReadClaim(i)
    PROVE  ReadingOK'
<1>1. /\ reader # NoReader /\ ReadingOK /\ reader.at = "claim" /\ i \in reader.looked
      /\ UNCHANGED <<files, previous>>
  BY DEF ReadClaim, ReadingAt, ReadingInv
<1>2. i \in reader.rest /\ (ClaimFile(i) \/ "unclaimed" \in reader.events)
  BY <1>1 DEF ReadingOK, StageOK, NoticedOK
<1>3. CASE ClaimFile(i) /\ reader' = [reader EXCEPT !.at = "judge", !.copy = claim[i]]
  <2>1. DOMAIN reader = Reading
    BY <1>1 DEF ReadingOK, ReadingTyped
  <2>2. /\ DOMAIN reader' = DOMAIN reader
        /\ reader'.row = reader.row /\ reader'.was = reader.was /\ reader'.events = reader.events
        /\ reader'.shown = reader.shown /\ reader'.rest = reader.rest /\ reader'.at = "judge"
        /\ reader'.looked = reader.looked /\ reader'.copy = claim[i]
        /\ reader'.outdated = reader.outdated
    BY <1>3, <2>1 DEF Reading
  <2>3. Still
    BY <1>1, <2>2 DEF Still
  <2>4. StageOK' /\ reader'.rest \subseteq Items
    BY <1>1, <1>3, <2>2 DEF ReadingOK, ReadingTyped, StageOK, Found, ClaimFile
  <2>5. ASSUME Quiet
        PROVE  CopyOK'
    <3>1. reader.looked = {i} /\ i \in Found
      BY <1>1, <1>2 DEF ReadingOK, StageOK
    <3>2. /\ Present(i) /\ Now(i) \in reader.was[i]
          /\ reader.row[i].status = "TODO" /\ item[i] # "TODO" =>
               "CLAIMED" \in reader.was[i] \/ claim[i] = "STALE"
      BY <1>1, <1>3, <2>5, <3>1 DEF ReadingOK, RowsOK, RowsKept, NoticedOK
    <3>3. item[i] \in {"TODO", "BLOCKED", "DONE"}
      BY <3>2 DEF FilesInv, FilesTyped, Present
    <3>4. Now(i) = IF item[i] # "TODO" THEN item[i]
                   ELSE IF claim[i] = "LIVE" THEN "CLAIMED" ELSE "STALE_CLAIM"
      BY <1>3, <3>2 DEF Now, Derived, ClaimFile
    <3> QED
      BY <1>3, <2>2, <3>1, <3>2, <3>3, <3>4 DEF CopyOK, ClaimFile
  <2> QED
    BY <1>1, <2>2, <2>3, <2>4, <2>5, MovesOn
<1>4. CASE ~ ClaimFile(i) /\ Fails("no claim")
  BY <1>1, <1>2, <1>4, FailKeeps
<1> QED
  BY <1>3, <1>4 DEF ReadClaim

\* the judgement of the lease,
LEMMA ClaimJudgedKeeps ==
    ASSUME FilesInv, ReadingInv, NEW i \in Items, JudgeClaim(i)
    PROVE  ReadingOK'
<1>1. /\ reader # NoReader /\ ReadingOK /\ reader.at = "judge" /\ i \in reader.looked
      /\ UNCHANGED <<files, previous>>
  BY DEF JudgeClaim, ReadingAt, ReadingInv
<1>2. i \in reader.rest
  BY <1>1 DEF ReadingOK, StageOK
<1>3. PICK lease \in {"LIVE", "STALE"} : reader.copy \in {lease, "OLD"} /\ Show(i, lease)
  BY DEF JudgeClaim
<1> QED
  BY <1>1, <1>2, <1>3, ShowKeeps

\* and of a finalize record.
LEMMA JournalReadKeeps ==
    ASSUME FilesInv, ReadingInv, NEW i \in Items, ReadJournal(i)
    PROVE  ReadingOK'
<1> DEFINE state == [j \in DOMAIN reader.state \cup {i} |->
                       IF j = i THEN journal[i] ELSE reader.state[j]]
<1>1. /\ reader # NoReader /\ ReadingOK /\ reader.at = "journal" /\ i \in reader.rest
      /\ UNCHANGED <<files, previous>>
      /\ reader' = Onwards([reader EXCEPT !.state = state], i, "done")
  BY DEF ReadJournal, ReadingAt, ReadingInv
<1> HIDE DEF state
<1>2. /\ DOMAIN reader = Reading
      /\ reader.rest \subseteq Found /\ Found \subseteq Items
  BY <1>1 DEF ReadingOK, ReadingTyped, StageOK
<1>3. /\ DOMAIN reader' = DOMAIN reader
      /\ reader'.row = reader.row /\ reader'.was = reader.was /\ reader'.events = reader.events
      /\ reader'.shown = reader.shown /\ reader'.looked = reader.looked
      /\ reader'.outdated = reader.outdated
      /\ reader'.rest \subseteq Found /\ reader'.at \in {"journal", "done"}
  <2>1. DOMAIN [reader EXCEPT !.state = state].row = Found
    BY <1>2 DEF Found, Reading
  <2> QED
    BY <1>1, <1>2, <2>1 DEF Onwards, Reading
<1>4. Still
  BY <1>1, <1>3 DEF Still
<1>5. StageOK' /\ CopyOK' /\ reader'.rest \subseteq Items
  BY <1>1, <1>2, <1>3 DEF ReadingOK, ReadingTyped, StageOK, CopyOK, Found
<1> QED
  BY <1>1, <1>3, <1>4, <1>5, MovesOn

\* An item is read: the next row.
LEMMA ItemReadKeeps ==
    ASSUME FilesInv, ReadingInv, ReadItem
    PROVE  ReadingOK'
<1> DEFINE i == Min(reader.rest)
           row == [j \in Found \cup {i} |->
                     IF j = i THEN [status |-> item[i], needs |-> needs[i]] ELSE reader.row[j]]
           graph == [j \in DOMAIN row |-> row[j].needs]
           last == reader.rest = {i}
<1>1. /\ reader # NoReader /\ ReadingOK /\ reader.at = "items"
      /\ UNCHANGED <<files, previous>>
  BY DEF ReadItem, ReadingAt, ReadingInv
<1>2. /\ DOMAIN reader = Reading
      /\ reader.rest \subseteq Items /\ Found \subseteq Items
      /\ reader.rest # {} /\ reader.rest \cap Found = {} /\ DOMAIN reader.shown = {}
      /\ \A j \in Items : Now(j) \in reader.was[j]
  BY <1>1 DEF ReadingOK, ReadingTyped, StageOK, NoticedOK
<1>3. i \in reader.rest /\ i \in Items /\ i \notin Found
  BY <1>2, MinMember
<1>4. /\ DOMAIN row = Found \cup {i}
      /\ row[i].status = item[i] /\ row[i].needs = needs[i]
      /\ \A j \in Found : row[j] = reader.row[j]
      /\ DOMAIN graph = Found \cup {i}
  BY <1>3
<1>5. \/ ~ Present(i) /\ Fails("no item")
      \/ Present(i) /\ last /\ ~ Accepted(graph) /\ Fails("no graph")
      \/ /\ Present(i) /\ (last => Accepted(graph))
         /\ reader' = Onwards([reader EXCEPT !.row = row], i, "claims")
  BY DEF ReadItem
<1> HIDE DEF i, row
<1>6. CASE ~ Present(i) /\ Fails("no item")
  <2>1. item[i] = "TORN" => "created" \in reader.events
    BY <1>1, <1>3 DEF ReadingOK, NoticedOK
  <2>2. item[i] = "NONE" => "removed" \in reader.events
    BY <1>1, <1>3 DEF ReadingOK, RowsOK, RestWaited, Quiet
  <2>3. reader.events \cap {"created", "removed"} # {}
    BY <1>6, <2>1, <2>2 DEF Present
  <2> QED
    BY <1>1, <1>6, <2>3, FailKeeps
<1>7. CASE Present(i) /\ last /\ ~ Accepted(graph) /\ Fails("no graph")
  <2>1. ASSUME removals = 0
        PROVE  Accepted(graph)
    <3>1. ~ Quiet => removals > 0
      BY <1>1, Zenon DEF ReadingOK, NoticedOK
    <3>2. RowsOK /\ WholeOK
      BY <1>1, <2>1, <3>1 DEF ReadingOK
    <3>3. \A j \in Found \cup {i} : Present(j) /\ row[j].needs = needs[j]
      BY <1>4, <1>7, <3>2 DEF RowsOK, RowsKept
    <3>4. graph = [j \in Found \cup {i} |-> needs[j]]
      BY <1>4, <3>3
    <3>5. Complete([j \in Found \cup {i} |-> needs[j]])
      BY <1>1, <1>7, <3>2 DEF WholeOK, Complete
    <3>6. Acyclic([j \in Found \cup {i} |-> needs[j]])
      <4>1. Found \cup {i} \subseteq Files
        BY <1>2, <1>3, <3>3 DEF Files, Present
      <4>2. Acyclic([j \in Files |-> needs[j]])
        BY DEF FilesInv, GraphOK
      <4> QED
        BY <4>1, <4>2, PartAcyclic
    <3> HIDE DEF graph
    <3> QED
      BY <3>4, <3>5, <3>6 DEF Accepted
  <2>2. removals > 0
    <3>1. removals # 0
      BY <1>7, <2>1
    <3> QED
      BY <3>1 DEF FilesInv, FilesTyped
  <2> QED
    BY <1>1, <1>7, <2>2, FailKeeps
<1>8. CASE /\ Present(i) /\ (last => Accepted(graph))
           /\ reader' = Onwards([reader EXCEPT !.row = row], i, "claims")
  <2>1. /\ DOMAIN reader' = DOMAIN reader
        /\ reader'.row = row /\ reader'.was = reader.was /\ reader'.events = reader.events
        /\ reader'.shown = reader.shown /\ reader'.looked = reader.looked
        /\ reader'.copy = reader.copy /\ reader'.outdated = reader.outdated
        /\ \/ last /\ reader'.at = "claims" /\ reader'.rest = Found \cup {i}
           \/ ~ last /\ reader'.at = "items" /\ reader'.rest = reader.rest \ {i}
    <3>1. DOMAIN [reader EXCEPT !.row = row].row = Found \cup {i}
      BY <1>2, <1>4 DEF Reading
    <3> QED
      BY <1>1, <1>2, <1>8, <3>1 DEF Onwards, Reading
  <2>2. /\ Still /\ Found' = Found \cup {i}
        /\ UNCHANGED <<item, needs, claim, plan, removals, previous>>
    BY <1>1, <1>4, <2>1 DEF Still, Found, files
  <2>3. /\ item[i] \in {"TODO", "BLOCKED", "DONE"} /\ needs[i] \subseteq Items
        /\ item[i] # "TODO" => Now(i) = item[i]
    BY <1>3, <1>8 DEF FilesInv, FilesTyped, Present, Now, Derived
  <2>4. ReadingTyped'
    BY <1>1, <1>2, <1>3, <1>4, <2>1, <2>2, <2>3 DEF ReadingOK, ReadingTyped
  <2>5. StageOK'
    <3>1. last => \A j \in Found \cup {i} : row[j].needs \subseteq Found \cup {i}
      BY <1>4, <1>8 DEF Accepted, Complete
    <3>2. ~ last => reader.rest \ {i} # {}
      BY <1>3
    <3>3. reader.looked = {} /\ reader.copy = "NONE"
      BY <1>1 DEF ReadingOK, StageOK
    <3>4. CASE last
      <4>1. reader'.at = "claims" /\ reader'.rest = Found' /\ reader'.rest # {}
        BY <2>1, <2>2, <3>4
      <4>2. DOMAIN reader'.shown = {} /\ reader'.looked = {} /\ reader'.row = row
            /\ reader'.copy = "NONE"
        BY <1>2, <2>1, <3>3
      <4>3. \A j \in Found' : reader'.row[j].needs \subseteq Found'
        BY <2>2, <3>1, <3>4, <4>2
      <4> QED
        BY <4>1, <4>2, <4>3 DEF StageOK
    <3>5. CASE ~ last
      BY <1>2, <2>1, <2>2, <3>2, <3>3, <3>5 DEF StageOK
    <3> QED
      BY <3>4, <3>5
  <2>6. NoticedOK'
    BY <1>1, <1>2, <2>1, <2>2, StillKeeps DEF ReadingOK, NoticedOK
  <2>7. ASSUME Quiet'
        PROVE  RowsOK'
    <3>1. RowsOK
      BY <1>1, <2>2, <2>7, StillKeeps
    <3>2. \A j \in Items : Present(j)' = Present(j) /\ (Waited(j) => Waited(j)')
      BY <1>1, <2>2, StillKeeps
    <3>3. \A j \in Found : Present(j)
      BY <3>1 DEF RowsOK, RowsKept
    <3>4. ASSUME NEW j \in Items, NEW d \in needs[j], Present(j), item[d] # "DONE"
          PROVE  Waited(j)
      BY <1>2, <3>4, WaitedNow
    <3>5. RowsKept'
      <4>1. ASSUME NEW j \in Found
            PROVE  /\ Present(j) /\ row[j].needs = needs[j]
                   /\ row[j].status # "TODO" => row[j].status \in reader.was[j]
                   /\ removals = 0 /\ row[j].status = "DONE" => item[j] = "DONE"
                   /\ row[j].status = "TODO" /\ ClaimFile(j) /\ item[j] # "TODO" =>
                        "CLAIMED" \in reader.was[j] \/ (claim[j] = "STALE" /\ plan = Ending(j))
        BY <1>4, <3>1 DEF RowsOK, RowsKept
      <4>2. /\ Present(i) /\ row[i].needs = needs[i]
            /\ row[i].status # "TODO" => row[i].status \in reader.was[i]
            /\ row[i].status = "DONE" => item[i] = "DONE"
            /\ row[i].status = "TODO" => item[i] = "TODO"
        BY <1>2, <1>3, <1>4, <1>8, <2>3
      <4> QED
        BY <1>2, <1>3, <2>1, <2>2, <3>2, <4>1, <4>2 DEF RowsKept, ClaimFile
    <3>6. ASSUME NEW j \in Found \cup {i}, NEW d \in Found \cup {i},
                 row[j].status = "TODO", d \in needs[j], row[d].status # "DONE"
          PROVE  Waited(j)
      <4>1. j \in Items /\ Present(j)
        BY <1>2, <1>3, <1>8, <3>3
      <4>2. CASE d = i
        BY <1>4, <3>4, <3>6, <4>1, <4>2
      <4>3. CASE d \in Found /\ j \in Found
        BY <1>4, <3>1, <3>6, <4>3 DEF RowsOK, RowsWaited
      <4>4. CASE d \in Found /\ j = i
        BY <1>1, <1>3, <1>4, <3>1, <3>6, <4>1, <4>4 DEF RowsOK, RestWaited, Present
      <4> QED
        BY <4>2, <4>3, <4>4
    <3>7. RowsWaited'
      BY <1>2, <1>3, <2>1, <2>2, <3>2, <3>6 DEF RowsWaited
    <3>8. ASSUME NEW j \in reader.rest, NEW d \in Found \cup {i},
                 d \in needs[j], row[d].status # "DONE"
          PROVE  Waited(j) \/ (item[j] = "TORN" /\ item[d] # "DONE")
      <4>1. j \in Items /\ item[j] # "NONE"
        BY <1>1, <1>2, <3>1 DEF RowsOK, RestWaited
      <4>2. CASE d = i
        <5>1. item[d] # "DONE"
          BY <1>4, <3>8, <4>2
        <5>2. Present(j) => Waited(j)
          BY <3>4, <3>8, <4>1, <5>1
        <5> QED
          BY <4>1, <5>1, <5>2 DEF Present
      <4>3. CASE d \in Found
        BY <1>1, <1>4, <3>1, <3>8, <4>3 DEF RowsOK, RestWaited
      <4> QED
        BY <4>2, <4>3
    <3>9. RestWaited'
      <4>1. \A j \in reader.rest : j \in Items /\ item[j] # "NONE"
        BY <1>1, <1>2, <3>1 DEF RowsOK, RestWaited
      <4> QED
        BY <2>1, <2>2, <3>2, <3>8, <4>1 DEF RestWaited
    <3>10. ShownOK'
      BY <1>2, <2>1 DEF ShownOK
    <3>11. CopyOK'
      BY <2>1 DEF CopyOK
    <3> QED
      BY <3>5, <3>7, <3>9, <3>10, <3>11 DEF RowsOK
  <2>8. ASSUME removals' = 0
        PROVE  WholeOK'
    <3>1. WholeOK
      BY <1>1, <2>2, <2>8, StillKeeps
    <3>2. /\ reader'.at = "items" => (Found \cup {i}) \cup reader'.rest = Found \cup reader.rest
          /\ reader'.at = "claims" => Found \cup {i} = Found \cup reader.rest
      BY <1>3, <2>1
    <3> QED
      BY <1>1, <2>1, <2>2, <3>1, <3>2 DEF WholeOK
  <2> QED
    BY <2>4, <2>5, <2>6, <2>7, <2>8 DEF ReadingOK
<1> QED
  BY <1>5, <1>6, <1>7, <1>8

\* A reading begins with what glob finds.
LEMMA FirstLookKeeps ==
    ASSUME FilesInv, PreviousInv, BeginReading
    PROVE  ReadingOK' /\ PreviousInv'
<1> DEFINE found == {i \in Items : item[i] # "NONE"}
<1>1. /\ reader' = [at |-> IF found = {} THEN "done" ELSE "items",
                    rest |-> found, looked |-> {}, copy |-> "NONE",
                    row |-> <<>>, shown |-> <<>>, state |-> <<>>, outdated |-> {},
                    was |-> [i \in Items |-> {Now(i)}],
                    events |-> IF Readable THEN {} ELSE {"created"}]
      /\ UNCHANGED <<item, needs, claim, journal, sweep, plan, removals, previous>>
  BY DEF BeginReading
<1>2. /\ reader'.at = (IF found = {} THEN "done" ELSE "items") /\ reader'.rest = found
      /\ reader'.looked = {} /\ reader'.row = <<>> /\ reader'.shown = <<>>
      /\ reader'.copy = "NONE"
      /\ reader'.events = (IF Readable THEN {} ELSE {"created"})
      /\ DOMAIN reader' = Reading
      /\ DOMAIN reader'.was = Items /\ \A i \in Items : reader'.was[i] = {Now(i)}
  BY <1>1 DEF Reading
<1>3. Found' = {} /\ DOMAIN reader'.shown = {}
  BY <1>2 DEF Found
<1>4. \A i \in Items : Now(i)' = Now(i)
  BY <1>1 DEF Now, Present, Derived
<1>5. PreviousInv'
  BY <1>1 DEF PreviousInv
<1>6. ReadingTyped'
  BY <1>2, <1>3 DEF ReadingTyped
<1>7. StageOK'
  BY <1>2, <1>3 DEF StageOK
<1>8. NoticedOK'
  <2>1. ~ Readable => "created" \in reader'.events
    BY <1>2
  <2>2. Quiet'
    BY <1>2 DEF Quiet
  <2> QED
    BY <1>1, <1>2, <1>4, <2>1, <2>2 DEF NoticedOK, Readable
<1>9. RowsOK'
  BY <1>1, <1>2, <1>3 DEF RowsOK, RowsKept, RowsWaited, RestWaited, CopyOK, ShownOK
<1>10. removals' = 0 => WholeOK'
  BY <1>1, <1>2, <1>3 DEF WholeOK, PreviousInv, FilesInv, FilesTyped, GraphOK, Files
<1> QED
  BY <1>5, <1>6, <1>7, <1>8, <1>9, <1>10 DEF ReadingOK

\* The snapshot of a reading is of items that are there.
LEMMA EndKeeps ==
    ASSUME FilesInv, ReadingInv, PreviousInv, EndReading
    PROVE  ReadingInv' /\ PreviousInv'
<1>1. /\ reader # NoReader /\ ReadingOK /\ reader' = NoReader /\ UNCHANGED <<item, removals>>
      /\ previous' = IF reader.at = "done" THEN Snapshot ELSE previous
  BY DEF EndReading, ReadingInv, files
<1>2. ASSUME removals = 0
      PROVE  \A i \in Found : i \in Items /\ item[i] # "NONE"
  <2>1. ~ Quiet => removals > 0
    BY <1>1, Zenon DEF ReadingOK, NoticedOK
  <2>2. Quiet
    BY <1>2, <2>1
  <2>3. RowsKept /\ ReadingTyped
    BY <1>1, <2>2 DEF ReadingOK, RowsOK
  <2> QED
    BY <2>3 DEF ReadingTyped, RowsKept, Present
<1>3. DOMAIN Snapshot = Found
  BY DEF Snapshot
<1> QED
  BY <1>1, <1>2, <1>3 DEF ReadingInv, PreviousInv

\* The invariant of the readers, from one lemma per step.
LEMMA ReadersInvariant == ReadersSpec => []ReadersInv
<1>1. ReadersInit => ReadingInv /\ PreviousInv
  BY DEF ReadersInit, ReadingInv, PreviousInv
<1>2. FilesInv /\ FilesInv' /\ ReadingInv /\ PreviousInv /\ [ReadersNext]_rvars =>
          ReadingInv' /\ PreviousInv'
  <2> SUFFICES ASSUME FilesInv, FilesInv', ReadingInv, PreviousInv, [ReadersNext]_rvars
               PROVE  ReadingInv' /\ PreviousInv'
    OBVIOUS
  <2>1. ASSUME NEW e, NEW z, Happens(e), Notice(e, z)
        PROVE  ReadingInv' /\ PreviousInv'
    BY <2>1, NoticeSeen, ReadingDisturbed
  <2>2. CASE Begin
    BY <2>2, BeginSeen, HappensBegin, ReadingDisturbed
  <2>3. CASE Sweep
    BY <2>1, <2>3, HappensSweep
  <2>4. CASE Write
    BY <2>1, <2>4, HappensWrite
  <2>5. ASSUME NEW i \in Items, Expire(i)
        PROVE  ReadingInv' /\ PreviousInv'
    BY <2>1, <2>5, HappensExpire DEF Expire
  <2>6. ASSUME NEW i \in Items, DeleteItem(i)
        PROVE  ReadingInv' /\ PreviousInv'
    BY <2>1, <2>6, HappensDelete DEF DeleteItem
  <2>7. ASSUME NEW i \in Items,
               NEW s \in {"PREPARED", "RECONCILIATION_REQUIRED", "SYNCED"}, Record(i, s)
        PROVE  ReadingInv' /\ PreviousInv'
    BY <2>1, <2>7, HappensRecord DEF Record
  <2>8. CASE ReadingStep
    <3>1. CASE BeginReading
      BY <3>1, FirstLookKeeps DEF ReadingInv
    <3>2. CASE EndReading
      BY <3>2, EndKeeps
    <3>3. ASSUME ReadingOK', UNCHANGED <<files, previous>>
          PROVE  ReadingInv' /\ PreviousInv'
      BY <3>3 DEF ReadingInv, PreviousInv, files
    <3>4. CASE ReadItem
      BY <3>3, <3>4, ItemReadKeeps DEF ReadItem
    <3>5. ASSUME NEW i \in Items,
                 LookForClaim(i) \/ ReadClaim(i) \/ JudgeClaim(i) \/ ReadJournal(i)
          PROVE  ReadingInv' /\ PreviousInv'
      BY <3>3, <3>5, LookKeeps, ClaimReadKeeps, ClaimJudgedKeeps, JournalReadKeeps
      DEF LookForClaim, ReadClaim, JudgeClaim, ReadJournal
    <3> QED
      BY <2>8, <3>1, <3>2, <3>4, <3>5 DEF ReadingStep
  <2>9. CASE UNCHANGED rvars
    <3>1. UNCHANGED <<item, needs, claim, plan, removals, reader, previous>>
      BY <2>9 DEF rvars, files
    <3>2. \A i \in Items : Now(i)' = Now(i)
      BY <3>1 DEF Now, Present, Derived
    <3>3. Seen({})
      BY <3>1, <3>2 DEF Seen, ReadingInv, ReadingOK, NoticedOK
    <3>4. Happens({})
      BY <3>1 DEF Happens, Steady, Present, ClaimFile
    <3> QED
      BY <3>3, <3>4, ReadingDisturbed
  <2> QED
    BY <2>2, <2>3, <2>4, <2>5, <2>6, <2>7, <2>8, <2>9 DEF ReadersNext
<1> QED
  BY <1>1, <1>2, FilesInvariant, PTL DEF ReadersSpec, ReadersInv

-----------------------------------------------------------------------------
(* What readers can rely on *)

\* The files and the rows that are shown have their types.
THEOREM ReadersTyped == ReadersSpec => []ReadersTypeOK
<1>1. ReadersInv => ReadersTypeOK
  BY DEF ReadersInv, FilesInv, FilesTyped, ReadersTypeOK, ReadingAt, ReadingInv, ReadingOK,
         ReadingTyped, StageOK
<1> QED
  BY <1>1, ReadersInvariant, PTL

\* Rows that were read at different times are not made up: each was so at some
\* moment of the reading, or the work ended meanwhile, or its claim was prolonged
\* or ended between the look at it and the look at the clock; after a deletion, a
\* row of work whose dependency was enqueued anew may be ahead or behind.
THEOREM RowsTrue == ReadersSpec => []RowsWereTrue
<1>1. ReadersInv => RowsWereTrue
  BY DEF ReadersInv, RowsWereTrue, ReadingAt, ReadingInv, ReadingOK, Quiet, StageOK, RowsOK,
         ShownOK, ShownTrue
<1> QED
  BY <1>1, ReadersInvariant, PTL

\* A reading only fails when a file is made or deleted, or a claim ends.
THEOREM FailuresHaveCauses == ReadersSpec => []FailuresExplained
<1>1. ReadersInv => FailuresExplained
  BY DEF ReadersInv, FailuresExplained, ReadingInv, ReadingOK, NoticedOK
<1> QED
  BY <1>1, ReadersInvariant, PTL

\* Only a deletion can make event_delta look up what is not there.
THEOREM DeltasPossible == ReadersSpec => []DeltaPossible
<1>1. ReadersInv => DeltaPossible
  <2> SUFFICES ASSUME ReadersInv, ReadingAt("done"), previous # NoSnapshot, removals = 0
               PROVE  Changed(previous, Snapshot) \subseteq DOMAIN Snapshot
    BY DEF DeltaPossible
  <2>1. DOMAIN previous \subseteq Found
    BY DEF ReadersInv, ReadingAt, ReadingInv, ReadingOK, WholeOK
  <2>2. DOMAIN Snapshot = Found
    BY DEF Snapshot
  <2> QED
    BY <2>1, <2>2 DEF Changed
<1> QED
  BY <1>1, ReadersInvariant, PTL
=============================================================================
