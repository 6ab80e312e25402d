--------------------- MODULE CertificateInventory_proofs --------------------
(***************************************************************************)
(* Theorems about CertificateInventory for every value of its constants.   *)
(***************************************************************************)
EXTENDS CertificateInventory, FiniteSetTheorems, WellFoundedInduction, TLAPS

(* What an actor may rely on about the certificates it works on: the one it*)
(* records is its own, what it replaces or revokes has been recorded, and  *)
(* what it has had revoked is its to mark.                                 *)
Recording == {"select", "write", "insert"}

Holds(a) ==
    LET new == task[a].new
        old == task[a].old
    IN  /\ task[a].step \in Recording =>
             /\ new \in DOMAIN certs
             /\ ~Recorded(certs[new])
             /\ certs[new].kind = "acme" <=> a \in Importers
             /\ \A b \in Actors \ {a} : task[b].step \in Recording => task[b].new # new
        /\ task[a].step = "insert" => certs[new].kind = "private"
        /\ task[a].step # "idle" /\ old # 0 =>
             old \in DOMAIN certs /\ Recorded(certs[old])
        /\ task[a].step \in {"revoke", "mark"} => old # 0
        /\ task[a].step = "mark" =>
             /\ certs[old].revokedAtCA /\ certs[old].status # "revoked"
             /\ \A b \in Actors \ {a} : task[b].step = "mark" => task[b].old # old
Held == \A a \in Actors : Holds(a)

(* An issuer is asked to revoke recorded certificates only, and only such  *)
(* ones are replaced.                                                      *)
Sound ==
    \A i \in DOMAIN certs :
        LET old == certs[i].renewedFrom
        IN  /\ ~Recorded(certs[i]) => ~certs[i].revokedAtCA
            /\ old # 0 => old \in DOMAIN certs /\ Recorded(certs[old])

(* What an opening process has read can only have been retired since.      *)
ReadBefore ==
    /\ DOMAIN rows = Processes
    /\ \A p \in Processes : \A i \in DOMAIN rows[p] :
         /\ i \in DOMAIN certs
         /\ rows[p][i].name = certs[i].name
         /\ Recorded(certs[i])
         /\ rows[p][i].status # "active" => certs[i].status # "active"

(* Names whose recording was not raced have one active public certificate. *)
OneUnlessRaced ==
    \A n \in Names \ raced : \A i, j \in ActivePublic(n) : i = j

(* The inductive invariant. *)
IInv ==
    /\ TypeOK /\ Held /\ Sound /\ ReadBefore /\ OneUnlessRaced
    /\ RevokedAtItsIssuer /\ RevocationIsShown /\ ReplacedIsRetired

-----------------------------------------------------------------------------
(* What a step does to the certificates. *)

(* The largest element of a bounded set of numbers is one of them.         *)
LEMMA MaxIn ==
    ASSUME NEW n \in Nat, NEW S \in SUBSET (0..n), S # {}
    PROVE  Max(S) \in S
<1> DEFINE T == {n - x : x \in S}
<1>1. T \subseteq Nat /\ T # {}
  <2>1. \A x \in S : n - x \in Nat /\ n - x \in T
    OBVIOUS
  <2>2. \A y \in T : \E x \in S : y = n - x
    OBVIOUS
  <2> QED
    BY <2>1, <2>2
<1>2. PICK m \in T : \A y \in T : ~ (<<y, m>> \in OpToRel(<, Nat))
  BY <1>1, NatLessThanWellFounded, WFMin, Zenon
<1>3. \A y \in T : ~ (y < m)
  BY <1>1, <1>2 DEF OpToRel
<1>4. PICK x \in S : m = n - x
  OBVIOUS
<1>5. \A y \in S : x >= y
  <2>1. \A y \in S : n - y \in T
    OBVIOUS
  <2> QED
    BY <1>3, <1>4, <2>1
<1> QED
  BY <1>5 DEF Max


(* A certificate keeps its identity, is never active again once it is not, *)
(* and its issuer does not take a revocation back.                         *)
Ages(i) ==
    /\ i \in DOMAIN certs'
    /\ certs'[i].kind = certs[i].kind /\ certs'[i].name = certs[i].name
    /\ Recorded(certs[i]) => Recorded(certs[i])'
    /\ Recorded(certs[i]) /\ certs[i].status # "active" => certs'[i].status # "active"
    /\ certs[i].revokedAtCA => certs'[i].revokedAtCA

LEMMA SeqFacts ==
    ASSUME TypeOK
    PROVE  /\ Len(certs) \in Nat /\ DOMAIN certs = 1..Len(certs)
           /\ \A i \in DOMAIN certs : certs[i] \in Certificate
BY DEF TypeOK

LEMMA SignStep ==
    ASSUME TypeOK, NEW kind \in Kinds, NEW name \in Names, Sign(kind, name)
    PROVE  LET new == Len(certs) + 1
           IN  /\ certs' \in Seq(Certificate)
               /\ DOMAIN certs' = DOMAIN certs \cup {new}
               /\ new \notin DOMAIN certs
               /\ \A i \in DOMAIN certs : certs'[i] = certs[i]
               /\ certs'[new] = Signed(kind, name)
<1>1. Signed(kind, name) \in Certificate
  BY DEF Signed, Certificate
<1>2. certs \in Seq(Certificate) /\ certs' = Append(certs, Signed(kind, name))
  BY DEF TypeOK, Sign
<1> QED
  BY <1>1, <1>2

(* A table whose certificates are changed in place is well typed. *)
LEMMA InPlace ==
    ASSUME TypeOK, DOMAIN certs' = DOMAIN certs,
           certs' = [i \in DOMAIN certs |-> certs'[i]],
           \A i \in DOMAIN certs : certs'[i] \in Certificate
    PROVE  certs' \in Seq(Certificate)
<1>1. certs' \in [1..Len(certs) -> Certificate]
  BY SeqFacts
<1> QED
  BY <1>1, SeqFacts

LEMMA WriteStep ==
    ASSUME TypeOK, Held, NEW a \in Actors, Write(a)
    PROVE  LET new == task[a].new
               old == task[a].old
           IN  /\ new \in DOMAIN certs /\ ~Recorded(certs[new])
               /\ old # 0 => old \in DOMAIN certs /\ Recorded(certs[old])
               /\ certs' \in Seq(Certificate) /\ DOMAIN certs' = DOMAIN certs
               /\ certs'[new] = [certs[new] EXCEPT !.status = "active", !.renewedFrom = old]
               /\ old # 0 => certs'[old] = [certs[old] EXCEPT !.status = "superseded"]
               /\ \A i \in DOMAIN certs \ {new, old} : certs'[i] = certs[i]
<1> DEFINE new == task[a].new
           old == task[a].old
<1>1. /\ new \in DOMAIN certs /\ ~Recorded(certs[new])
      /\ old # 0 => old \in DOMAIN certs /\ Recorded(certs[old])
      /\ old \in Nat
  BY DEF Held, Holds, Write, Recording, TypeOK, Task
<1>2. new # old
  BY <1>1, SeqFacts DEF Recorded
<1>3. certs' = [i \in DOMAIN certs |->
                IF i = new THEN [certs[i] EXCEPT !.status = "active", !.renewedFrom = old]
                ELSE IF i = old THEN [certs[i] EXCEPT !.status = "superseded"]
                ELSE certs[i]]
  BY DEF Write
<1>4. \A i \in DOMAIN certs : certs'[i] \in Certificate
  BY <1>1, <1>3, SeqFacts DEF Certificate
<1>5. certs' \in Seq(Certificate)
  BY <1>3, <1>4, InPlace
<1> QED
  BY <1>1, <1>2, <1>3, <1>5

(* One certificate is changed in place. *)
LEMMA OneChanged ==
    ASSUME TypeOK, NEW k \in DOMAIN certs, NEW c \in Certificate,
           certs' = [certs EXCEPT ![k] = c]
    PROVE  /\ certs' \in Seq(Certificate) /\ DOMAIN certs' = DOMAIN certs
           /\ certs'[k] = c
           /\ \A i \in DOMAIN certs \ {k} : certs'[i] = certs[i]
<1>1. /\ DOMAIN certs' = DOMAIN certs /\ certs'[k] = c
      /\ certs' = [i \in DOMAIN certs |-> certs'[i]]
      /\ \A i \in DOMAIN certs \ {k} : certs'[i] = certs[i]
  BY DEF TypeOK
<1>2. \A i \in DOMAIN certs : certs'[i] \in Certificate
  BY <1>1, SeqFacts
<1> QED
  BY <1>1, <1>2, InPlace

LEMMA InsertStep ==
    ASSUME TypeOK, Held, NEW a \in Actors, Insert(a)
    PROVE  LET new == task[a].new
               old == task[a].old
           IN  /\ new \in DOMAIN certs /\ ~Recorded(certs[new])
               /\ certs[new].kind = "private"
               /\ old # 0 => old \in DOMAIN certs /\ Recorded(certs[old])
               /\ certs' \in Seq(Certificate) /\ DOMAIN certs' = DOMAIN certs
               /\ certs'[new] = [certs[new] EXCEPT !.status = "active", !.renewedFrom = old]
               /\ \A i \in DOMAIN certs \ {new} : certs'[i] = certs[i]
<1> DEFINE new == task[a].new
           old == task[a].old
           c == [certs[new] EXCEPT !.status = "active", !.renewedFrom = old]
<1>1. /\ new \in DOMAIN certs /\ ~Recorded(certs[new]) /\ certs[new].kind = "private"
      /\ old # 0 => old \in DOMAIN certs /\ Recorded(certs[old])
      /\ old \in Nat
  BY DEF Held, Holds, Insert, Recording, TypeOK, Task
<1>2. c \in Certificate
  BY <1>1, SeqFacts DEF Certificate
<1>3. certs' = [certs EXCEPT ![new] = c]
  BY DEF Insert
<1> QED
  BY <1>1, <1>2, <1>3, OneChanged

LEMMA RevokeStep ==
    ASSUME TypeOK, Held, NEW a \in Actors, RevokeAtCA(a)
    PROVE  LET old == task[a].old
           IN  /\ old \in DOMAIN certs /\ Recorded(certs[old])
               /\ ~certs[old].revokedAtCA
               /\ certs' \in Seq(Certificate) /\ DOMAIN certs' = DOMAIN certs
               /\ certs'[old] = [certs[old] EXCEPT !.revokedAtCA = TRUE]
               /\ \A i \in DOMAIN certs \ {old} : certs'[i] = certs[i]
<1> DEFINE old == task[a].old
           c == [certs[old] EXCEPT !.revokedAtCA = TRUE]
<1>1. old \in DOMAIN certs /\ Recorded(certs[old])
  BY DEF Held, Holds, RevokeAtCA
<1>2. c \in Certificate
  BY <1>1, SeqFacts DEF Certificate
<1>3. certs' = [certs EXCEPT ![old] = c] /\ ~certs[old].revokedAtCA
  BY DEF RevokeAtCA
<1> QED
  BY <1>1, <1>2, <1>3, OneChanged

LEMMA MarkStep ==
    ASSUME TypeOK, Held, NEW a \in Actors, Mark(a)
    PROVE  LET old == task[a].old
           IN  /\ old \in DOMAIN certs /\ Recorded(certs[old])
               /\ certs[old].revokedAtCA /\ certs[old].status # "revoked"
               /\ certs' \in Seq(Certificate) /\ DOMAIN certs' = DOMAIN certs
               /\ certs'[old].status \in {"superseded", "revoked"}
               /\ certs'[old] = [certs[old] EXCEPT !.status = certs'[old].status]
               /\ \A i \in DOMAIN certs \ {old} : certs'[i] = certs[i]
<1> DEFINE old == task[a].old
           c == [certs[old] EXCEPT !.status = task[a].into]
<1>1. /\ old \in DOMAIN certs /\ Recorded(certs[old])
      /\ certs[old].revokedAtCA /\ certs[old].status # "revoked"
  BY DEF Held, Holds, Mark
<1>2. task[a].into \in {"superseded", "revoked"}
  BY DEF TypeOK, Task
<1>3. c \in Certificate /\ c.status = task[a].into
  BY <1>1, <1>2, SeqFacts DEF Certificate
<1>4. certs' = [certs EXCEPT ![old] = c]
  BY DEF Mark
<1> QED
  BY <1>1, <1>2, <1>3, <1>4, OneChanged

(* The repair links certificates and supersedes some that were read.       *)
LEMMA RepairStep ==
    ASSUME TypeOK, ReadBefore, NEW p \in Processes, OpenWrite(p)
    PROVE  /\ certs' \in Seq(Certificate) /\ DOMAIN certs' = DOMAIN certs
           /\ \A i \in DOMAIN certs :
                /\ certs'[i] = [certs[i] EXCEPT !.renewedFrom = certs'[i].renewedFrom,
                                                !.status = certs'[i].status]
                /\ certs'[i].status = IF /\ i \in DOMAIN rows[p]
                                         /\ rows[p][i].status = "active"
                                         /\ Later(p, i) # {}
                                      THEN "superseded" ELSE certs[i].status
                /\ \/ certs'[i].renewedFrom = certs[i].renewedFrom
                   \/ /\ i \in DOMAIN rows[p]
                      /\ certs'[i].renewedFrom \in Earlier(p, i)
<1> DEFINE link(i) == IF Earlier(p, i) # {} /\ rows[p][i].renewedFrom = 0
                      THEN Max(Earlier(p, i)) ELSE certs[i].renewedFrom
           mark(i) == IF Later(p, i) # {} /\ rows[p][i].status = "active"
                      THEN "superseded" ELSE certs[i].status
<1>1. \A i \in DOMAIN rows[p] :
        i \in DOMAIN certs /\ rows[p][i].name = certs[i].name
        /\ i \in ReadRows(p, certs[i].name)
  BY DEF ReadBefore, ReadRows
<1>2. certs' = [i \in DOMAIN certs |->
                  IF i \in DOMAIN rows[p]
                  THEN [certs[i] EXCEPT !.renewedFrom = link(i), !.status = mark(i)]
                  ELSE certs[i]]
  BY <1>1 DEF OpenWrite, Repaired
<1>3. ASSUME NEW i \in DOMAIN rows[p], Earlier(p, i) # {}
      PROVE  Max(Earlier(p, i)) \in Earlier(p, i)
  <2>1. Earlier(p, i) \in SUBSET (0..Len(certs))
    BY <1>1, SeqFacts DEF Earlier, ReadRows
  <2> QED
    BY <1>3, <2>1, SeqFacts, MaxIn
<1>4. \A i \in DOMAIN rows[p] :
        /\ link(i) = certs[i].renewedFrom \/ link(i) \in Earlier(p, i)
        /\ link(i) \in Nat
        /\ mark(i) \in {"superseded", certs[i].status}
  <2>1. \A i \in DOMAIN rows[p] : Earlier(p, i) \subseteq Nat
    BY <1>1, SeqFacts DEF Earlier, ReadRows
  <2>2. \A i \in DOMAIN rows[p] : certs[i].renewedFrom \in Nat
    BY <1>1, SeqFacts DEF Certificate
  <2> QED
    BY <1>3, <2>1, <2>2
<1> HIDE DEF link, mark
<1>5. \A i \in DOMAIN certs : certs'[i] \in Certificate
  BY <1>2, <1>4, SeqFacts DEF Certificate
<1>6. /\ DOMAIN certs' = DOMAIN certs
      /\ certs' = [i \in DOMAIN certs |-> certs'[i]]
      /\ certs' \in Seq(Certificate)
  BY <1>2, <1>5, InPlace
<1>7. \A i \in DOMAIN certs :
        /\ certs'[i] = [certs[i] EXCEPT !.renewedFrom = certs'[i].renewedFrom,
                                        !.status = certs'[i].status]
        /\ i \in DOMAIN rows[p] => certs'[i].renewedFrom = link(i) /\ certs'[i].status = mark(i)
        /\ i \notin DOMAIN rows[p] => certs'[i] = certs[i]
  BY <1>2, SeqFacts DEF Certificate
<1> QED
  BY <1>4, <1>6, <1>7 DEF mark

-----------------------------------------------------------------------------
(* The steps by what they change: a certificate is signed, or only a task  *)
(* moves on, or something is recorded, or everything is dropped.           *)

Signing ==
    \/ \E a \in Actors, n \in Names :
         Issue(a, n) \/ \E i \in {0} \cup DOMAIN certs : OrderPublic(a, n, i)
    \/ \E a \in Actors, i \in DOMAIN certs, n \in Names : Reissue(a, i, n)
    \/ \E n \in Names : AcmeIssue(n)

Choosing(a) ==
    SelectPrevious(a) \/ \E i \in DOMAIN certs : SelectImported(a, i) \/ Revoke(a, i)

Dropping == Restart \/ \E a \in Actors : Fail(a)

LEMMA Cases ==
    ASSUME Next
    PROVE  \/ Signing \/ Dropping
           \/ \E p \in Processes : OpenRead(p) \/ OpenWrite(p)
           \/ \E a \in Actors : Choosing(a) \/ Write(a) \/ Insert(a) \/ RevokeAtCA(a) \/ Mark(a)
BY DEF Next, ActorStep, Request, Signing, Choosing, Dropping

(* A certificate that was just signed is nobody's but the signing actor's. *)
LEMMA SigningStep ==
    ASSUME TypeOK, Signing
    PROVE  LET new == Len(certs) + 1
           IN  /\ UNCHANGED <<opening, rows, faults, interrupted, raced>>
               /\ certs' \in Seq(Certificate)
               /\ DOMAIN certs' = DOMAIN certs \cup {new}
               /\ new \notin DOMAIN certs
               /\ \A i \in DOMAIN certs : certs'[i] = certs[i]
               /\ ~Recorded(certs'[new]) /\ ~certs'[new].revokedAtCA
               /\ certs'[new].renewedFrom = 0
               /\ \/ task' = task
                  \/ \E a \in Actors \ Importers :
                       /\ task[a].step = "idle" /\ task' \in [Actors -> Task]
                       /\ \A b \in Actors \ {a} : task'[b] = task[b]
                       /\ task'[a].step \in {"select", "insert"} /\ task'[a].new = new
                       /\ certs'[new].kind # "acme"
                       /\ task'[a].step = "insert" => certs'[new].kind = "private"
                       /\ task'[a].old # 0 => /\ task'[a].old \in DOMAIN certs
                                              /\ Recorded(certs[task'[a].old])
<1> DEFINE new == Len(certs) + 1
<1>1. ASSUME NEW kind \in Kinds, NEW name \in Names, Sign(kind, name)
      PROVE  /\ certs' \in Seq(Certificate)
             /\ DOMAIN certs' = DOMAIN certs \cup {new}
             /\ new \notin DOMAIN certs
             /\ \A i \in DOMAIN certs : certs'[i] = certs[i]
             /\ ~Recorded(certs'[new]) /\ ~certs'[new].revokedAtCA
             /\ certs'[new].renewedFrom = 0 /\ certs'[new].kind = kind
  <2>1. /\ certs' \in Seq(Certificate)
        /\ DOMAIN certs' = DOMAIN certs \cup {new}
        /\ new \notin DOMAIN certs
        /\ \A i \in DOMAIN certs : certs'[i] = certs[i]
        /\ certs'[new] = Signed(kind, name)
    BY <1>1, SignStep
  <2> QED
    BY <2>1 DEF Signed, Recorded
<1>2. ASSUME NEW a \in Actors \ Importers, NEW old \in {0} \cup DOMAIN certs,
             NEW step \in {"select", "insert"}, Ready(a),
             task' = [task EXCEPT ![a] = [step |-> step, new |-> new, old |-> old,
                                          into |-> "superseded"]]
      PROVE  /\ task[a].step = "idle" /\ task' \in [Actors -> Task]
             /\ \A b \in Actors \ {a} : task'[b] = task[b]
             /\ task'[a].step = step /\ task'[a].new = new /\ task'[a].old = old
  BY <1>2, SeqFacts DEF TypeOK, Task, Steps, Ready
<1>3. CASE \E a \in Actors, n \in Names : Issue(a, n)
  <2>1. PICK a \in Actors, n \in Names : Issue(a, n)
    BY <1>3
  <2>2. /\ a \in Actors \ Importers /\ Ready(a) /\ Sign("private", n)
        /\ UNCHANGED <<opening, rows, faults, interrupted, raced>>
        /\ task' = [task EXCEPT ![a] = [step |-> "insert", new |-> new, old |-> 0,
                                         into |-> "superseded"]]
    BY <2>1, InventoryAssumption DEF Issue
  <2>3. "private" \in Kinds /\ "private" # "acme"
    BY DEF Kinds
  <2>4. /\ task[a].step = "idle" /\ task' \in [Actors -> Task]
        /\ \A b \in Actors \ {a} : task'[b] = task[b]
        /\ task'[a].step = "insert" /\ task'[a].new = new /\ task'[a].old = 0
    BY <1>2, <2>2
  <2>5. /\ certs' \in Seq(Certificate)
        /\ DOMAIN certs' = DOMAIN certs \cup {new}
        /\ new \notin DOMAIN certs
        /\ \A i \in DOMAIN certs : certs'[i] = certs[i]
        /\ ~Recorded(certs'[new]) /\ ~certs'[new].revokedAtCA
        /\ certs'[new].renewedFrom = 0 /\ certs'[new].kind = "private"
    BY <1>1, <2>2, <2>3
  <2> QED
    BY <2>2, <2>3, <2>4, <2>5
<1>4. CASE \E a \in Actors, n \in Names, i \in {0} \cup DOMAIN certs : OrderPublic(a, n, i)
  <2>1. PICK a \in Actors, n \in Names, i \in {0} \cup DOMAIN certs : OrderPublic(a, n, i)
    BY <1>4
  <2>2. /\ a \in Actors \ Importers /\ Ready(a) /\ Sign("public", n)
        /\ UNCHANGED <<opening, rows, faults, interrupted, raced>>
        /\ task' = [task EXCEPT ![a] = [step |-> "select", new |-> new, old |-> i,
                                         into |-> "superseded"]]
    BY <2>1 DEF OrderPublic
  <2>3. "public" \in Kinds /\ "public" # "acme"
    BY DEF Kinds
  <2>4. /\ task[a].step = "idle" /\ task' \in [Actors -> Task]
        /\ \A b \in Actors \ {a} : task'[b] = task[b]
        /\ task'[a].step = "select" /\ task'[a].new = new /\ task'[a].old = i
    BY <1>2, <2>2
  <2>5. i # 0 => i \in DOMAIN certs /\ Recorded(certs[i])
    BY <2>1 DEF OrderPublic, ActivePublic, Recorded
  <2> QED
    BY <1>1, <2>2, <2>3, <2>4, <2>5
<1>5. CASE \E a \in Actors, i \in DOMAIN certs, n \in Names : Reissue(a, i, n)
  <2>1. PICK a \in Actors, i \in DOMAIN certs, n \in Names : Reissue(a, i, n)
    BY <1>5
  <2>2. /\ a \in Actors \ Importers /\ Ready(a) /\ Sign("private", n)
        /\ UNCHANGED <<opening, rows, faults, interrupted, raced>>
        /\ task' = [task EXCEPT ![a] = [step |-> "insert", new |-> new, old |-> i,
                                         into |-> "superseded"]]
    BY <2>1, InventoryAssumption DEF Reissue
  <2>3. "private" \in Kinds /\ "private" # "acme"
    BY DEF Kinds
  <2>4. /\ task[a].step = "idle" /\ task' \in [Actors -> Task]
        /\ \A b \in Actors \ {a} : task'[b] = task[b]
        /\ task'[a].step = "insert" /\ task'[a].new = new /\ task'[a].old = i
    BY <1>2, <2>2
  <2>5. Recorded(certs[i])
    BY <2>1 DEF Reissue, Recorded
  <2> QED
    BY <1>1, <2>2, <2>3, <2>4, <2>5
<1>6. CASE \E n \in Names : AcmeIssue(n)
  <2>1. PICK n \in Names : AcmeIssue(n)
    BY <1>6
  <2>2. /\ Sign("acme", n) /\ UNCHANGED <<task, opening, rows, faults, interrupted, raced>>
    BY <2>1 DEF AcmeIssue
  <2>3. "acme" \in Kinds
    BY DEF Kinds
  <2> QED
    BY <1>1, <2>2, <2>3
<1> QED
  BY <1>3, <1>4, <1>5, <1>6 DEF Signing

LEMMA AllAge ==
    ASSUME IInv, Next
    PROVE  \A i \in DOMAIN certs : Ages(i)
<1>0. TypeOK /\ Held /\ ReadBefore /\ \A i \in DOMAIN certs : certs[i] \in Certificate
  BY SeqFacts DEF IInv
<1>1. CASE UNCHANGED certs
  BY <1>1 DEF Ages, Recorded
<1>2. CASE Signing
  BY <1>0, <1>2, SigningStep DEF Ages, Recorded
<1>3. ASSUME NEW p \in Processes, OpenWrite(p)
      PROVE  \A i \in DOMAIN certs : Ages(i)
  <2> TAKE i \in DOMAIN certs
  <2>1. /\ DOMAIN certs' = DOMAIN certs
        /\ certs'[i] = [certs[i] EXCEPT !.renewedFrom = certs'[i].renewedFrom,
                                        !.status = certs'[i].status]
        /\ certs'[i].status \in {certs[i].status, "superseded"}
    BY <1>0, <1>3, RepairStep
  <2> QED
    BY <1>0, <2>1 DEF Ages, Recorded, Certificate
<1>4. ASSUME NEW a \in Actors, Write(a)
      PROVE  \A i \in DOMAIN certs : Ages(i)
  <2> TAKE i \in DOMAIN certs
  <2>1. CASE i = task[a].new
    <3>1. /\ certs'[i] = [certs[i] EXCEPT !.status = "active", !.renewedFrom = task[a].old]
          /\ DOMAIN certs' = DOMAIN certs /\ certs[i].status = "issued"
      BY <1>0, <1>4, <2>1, WriteStep DEF Recorded
    <3> QED
      BY <1>0, <2>1, <3>1 DEF Ages, Recorded, Certificate
  <2>2. CASE i = task[a].old /\ i # task[a].new
    <3>1. i # 0
      BY <1>0, SeqFacts
    <3>2. /\ certs'[i] = [certs[i] EXCEPT !.status = "superseded"]
          /\ DOMAIN certs' = DOMAIN certs
      BY <1>0, <1>4, <2>2, <3>1, WriteStep
    <3> QED
      BY <1>0, <2>2, <3>2 DEF Ages, Recorded, Certificate
  <2>3. CASE i # task[a].new /\ i # task[a].old
    <3>1. certs'[i] = certs[i] /\ DOMAIN certs' = DOMAIN certs
      BY <1>0, <1>4, <2>3, WriteStep
    <3> QED
      BY <1>0, <2>3, <3>1 DEF Ages, Recorded, Certificate
  <2> QED
    BY <2>1, <2>2, <2>3
<1>5. ASSUME NEW a \in Actors, Insert(a)
      PROVE  \A i \in DOMAIN certs : Ages(i)
  <2> TAKE i \in DOMAIN certs
  <2>1. CASE i = task[a].new
    <3>1. /\ certs'[i] = [certs[i] EXCEPT !.status = "active", !.renewedFrom = task[a].old]
          /\ DOMAIN certs' = DOMAIN certs /\ certs[i].status = "issued"
      BY <1>0, <1>5, <2>1, InsertStep DEF Recorded
    <3> QED
      BY <1>0, <2>1, <3>1 DEF Ages, Recorded, Certificate
  <2>2. CASE i # task[a].new
    <3>1. certs'[i] = certs[i] /\ DOMAIN certs' = DOMAIN certs
      BY <1>0, <1>5, <2>2, InsertStep
    <3> QED
      BY <1>0, <2>2, <3>1 DEF Ages, Recorded, Certificate
  <2> QED
    BY <2>1, <2>2
<1>6. ASSUME NEW a \in Actors, RevokeAtCA(a)
      PROVE  \A i \in DOMAIN certs : Ages(i)
  <2> TAKE i \in DOMAIN certs
  <2>1. CASE i = task[a].old
    <3>1. /\ certs'[i] = [certs[i] EXCEPT !.revokedAtCA = TRUE]
          /\ DOMAIN certs' = DOMAIN certs
      BY <1>0, <1>6, <2>1, RevokeStep
    <3> QED
      BY <1>0, <2>1, <3>1 DEF Ages, Recorded, Certificate
  <2>2. CASE i # task[a].old
    <3>1. certs'[i] = certs[i] /\ DOMAIN certs' = DOMAIN certs
      BY <1>0, <1>6, <2>2, RevokeStep
    <3> QED
      BY <1>0, <2>2, <3>1 DEF Ages, Recorded, Certificate
  <2> QED
    BY <2>1, <2>2
<1>7. ASSUME NEW a \in Actors, Mark(a)
      PROVE  \A i \in DOMAIN certs : Ages(i)
  <2> TAKE i \in DOMAIN certs
  <2>1. CASE i = task[a].old
    <3>1. /\ certs'[i] = [certs[i] EXCEPT !.status = certs'[i].status]
          /\ certs'[i].status \in {"superseded", "revoked"}
          /\ DOMAIN certs' = DOMAIN certs
      BY <1>0, <1>7, <2>1, MarkStep
    <3> QED
      BY <1>0, <2>1, <3>1 DEF Ages, Recorded, Certificate
  <2>2. CASE i # task[a].old
    <3>1. certs'[i] = certs[i] /\ DOMAIN certs' = DOMAIN certs
      BY <1>0, <1>7, <2>2, MarkStep
    <3> QED
      BY <1>0, <2>2, <3>1 DEF Ages, Recorded, Certificate
  <2> QED
    BY <2>1, <2>2
<1>8. Dropping \/ (\E p \in Processes : OpenRead(p)) \/ (\E a \in Actors : Choosing(a))
        => UNCHANGED certs
  BY DEF Dropping, Restart, Fail, OpenRead, Choosing, SelectPrevious, SelectImported, Revoke
<1> QED
  BY <1>1, <1>2, <1>3, <1>4, <1>5, <1>6, <1>7, <1>8, Cases

-----------------------------------------------------------------------------
(* Tasks. *)

LEMMA FinishTask ==
    ASSUME TypeOK, NEW a \in Actors, task' = [task EXCEPT ![a] = IdleTask]
    PROVE  /\ task' \in [Actors -> Task]
           /\ task'[a].step = "idle"
           /\ \A b \in Actors \ {a} : task'[b] = task[b]
BY DEF TypeOK, Task, IdleTask, Steps

LEMMA ActivePublicFacts ==
    ASSUME TypeOK, NEW name
    PROVE  /\ Newest(ActivePublic(name)) \in {0} \cup ActivePublic(name)
           /\ \A i \in ActivePublic(name) : i \in DOMAIN certs /\ Recorded(certs[i])
<1>1. ActivePublic(name) \in SUBSET (0..Len(certs))
  BY SeqFacts DEF ActivePublic
<1>2. Newest(ActivePublic(name)) \in {0} \cup ActivePublic(name)
  BY <1>1, SeqFacts, MaxIn DEF Newest
<1> QED
  BY <1>2 DEF ActivePublic, Recorded

(* An actor that is not working on a certificate chooses one.              *)
LEMMA ChoosingStep ==
    ASSUME TypeOK, Held, NEW a \in Actors, Choosing(a)
    PROVE  /\ UNCHANGED <<certs, opening, rows, faults, interrupted, raced>>
           /\ task' \in [Actors -> Task]
           /\ \A b \in Actors \ {a} : task'[b] = task[b]
           /\ Retiring(a) = {}
           /\ task[a].step # "mark"
           /\ \/ task'[a].step = "idle"
              \/ /\ task'[a].step = "write"
                 /\ \/ task[a].step = "select" /\ task'[a].new = task[a].new
                    \/ /\ a \in Importers
                       /\ task'[a].new \in DOMAIN certs
                       /\ certs[task'[a].new].kind = "acme"
                       /\ ~Recorded(certs[task'[a].new])
                 /\ task'[a].old # 0 =>
                      task'[a].old \in DOMAIN certs /\ Recorded(certs[task'[a].old])
              \/ /\ task'[a].step = "revoke"
                 /\ task'[a].old \in DOMAIN certs /\ Recorded(certs[task'[a].old])
<1>1. CASE SelectPrevious(a)
  <2> DEFINE new == task[a].new
             old == task[a].old
             found == Newest(ActivePublic(certs[new].name))
  <2>1. task[a].step = "select" /\ UNCHANGED <<certs, opening, rows, faults, interrupted, raced>>
    BY <1>1 DEF SelectPrevious
  <2>2. CASE old = 0
    <3>1. task' = [task EXCEPT ![a] = [@ EXCEPT !.step = "write", !.old = found]]
      BY <1>1, <2>2 DEF SelectPrevious
    <3>2. found \in Nat /\ (found # 0 => found \in DOMAIN certs /\ Recorded(certs[found]))
      BY ActivePublicFacts, SeqFacts
    <3>3. /\ task' \in [Actors -> Task] /\ \A b \in Actors \ {a} : task'[b] = task[b]
          /\ task'[a].step = "write" /\ task'[a].new = new /\ task'[a].old = found
      BY <3>1, <3>2 DEF TypeOK, Task, Steps
    <3> QED
      BY <2>1, <3>2, <3>3 DEF Retiring
  <2>3. CASE old # 0 /\ certs[old].status = "active"
    <3>1. task' = [task EXCEPT ![a] = [@ EXCEPT !.step = "write"]]
      BY <1>1, <2>3 DEF SelectPrevious
    <3>2. /\ task' \in [Actors -> Task] /\ \A b \in Actors \ {a} : task'[b] = task[b]
          /\ task'[a].step = "write" /\ task'[a].new = new /\ task'[a].old = old
      BY <3>1 DEF TypeOK, Task, Steps
    <3>3. old \in DOMAIN certs /\ Recorded(certs[old])
      BY <2>1, <2>3 DEF Held, Holds
    <3> QED
      BY <2>1, <3>2, <3>3 DEF Retiring
  <2>4. CASE old # 0 /\ certs[old].status # "active"
    <3>1. task' = [task EXCEPT ![a] = IdleTask]
      BY <1>1, <2>4 DEF SelectPrevious
    <3> QED
      BY <2>1, <3>1, FinishTask DEF Retiring
  <2> QED
    BY <2>2, <2>3, <2>4
<1>2. CASE \E i \in DOMAIN certs : SelectImported(a, i)
  <2>1. PICK i \in DOMAIN certs : SelectImported(a, i)
    BY <1>2
  <2> DEFINE same == ActiveAcme(certs[i].name)
  <2>2. same \in SUBSET (0..Len(certs))
    BY SeqFacts DEF ActiveAcme
  <2>3. Newest(same) = 0 \/ Newest(same) \in same
    BY <2>2, SeqFacts, MaxIn DEF Newest
  <2>4. /\ Newest(same) \in Nat
        /\ Newest(same) # 0 => /\ Newest(same) \in DOMAIN certs
                               /\ Recorded(certs[Newest(same)])
    BY <2>3, SeqFacts DEF Recorded, ActiveAcme
  <2>5. task' = [task EXCEPT ![a] = [step |-> "write", new |-> i, old |-> Newest(same),
                                     into |-> "superseded"]]
    BY <2>1 DEF SelectImported
  <2> HIDE DEF same
  <2>6. /\ task' \in [Actors -> Task] /\ \A b \in Actors \ {a} : task'[b] = task[b]
        /\ task'[a].step = "write" /\ task'[a].new = i /\ task'[a].old = Newest(same)
    BY <2>4, <2>5, SeqFacts DEF TypeOK, Task, Steps
  <2>7. /\ a \in Importers /\ certs[i].kind = "acme" /\ ~Recorded(certs[i])
        /\ task[a].step = "idle"
        /\ UNCHANGED <<certs, opening, rows, faults, interrupted, raced>>
    BY <2>1 DEF SelectImported, Ready
  <2> QED
    BY <2>4, <2>6, <2>7 DEF Retiring
<1>3. CASE \E i \in DOMAIN certs : Revoke(a, i)
  <2>1. PICK i \in DOMAIN certs : Revoke(a, i)
    BY <1>3
  <2>2. /\ task' \in [Actors -> Task] /\ \A b \in Actors \ {a} : task'[b] = task[b]
        /\ task'[a].step = "revoke" /\ task'[a].old = i
    BY <2>1, SeqFacts DEF Revoke, TypeOK, Task, Steps
  <2>3. /\ task[a].step = "idle" /\ Recorded(certs[i])
        /\ UNCHANGED <<certs, opening, rows, faults, interrupted, raced>>
    BY <2>1 DEF Revoke, Ready, Recorded
  <2> QED
    BY <2>2, <2>3 DEF Retiring
<1> QED
  BY <1>1, <1>2, <1>3 DEF Choosing

LEMMA RecordingTask ==
    ASSUME TypeOK, Held, NEW a \in Actors, Write(a) \/ Insert(a)
    PROVE  /\ UNCHANGED <<opening, rows, faults, interrupted>>
           /\ task' \in [Actors -> Task]
           /\ \A b \in Actors \ {a} : task'[b] = task[b]
           /\ Insert(a) => raced' = raced
           /\ \/ task'[a].step = "idle" /\ (Insert(a) => task[a].old = 0)
              \/ /\ Insert(a) /\ task'[a].step = "revoke"
                 /\ task'[a].new = task[a].new
                 /\ task'[a].old = task[a].old /\ task[a].old # 0
<1>1. CASE Write(a)
  BY <1>1, FinishTask DEF Write, Insert
<1>2. CASE Insert(a) /\ task[a].old = 0
  BY <1>2, FinishTask DEF Insert
<1>3. CASE Insert(a) /\ task[a].old # 0
  <2>1. task' = [task EXCEPT ![a] = [@ EXCEPT !.step = "revoke"]]
    BY <1>3 DEF Insert
  <2>2. /\ task' \in [Actors -> Task] /\ \A b \in Actors \ {a} : task'[b] = task[b]
        /\ task'[a].step = "revoke" /\ task'[a].old = task[a].old
        /\ task'[a].new = task[a].new
    BY <2>1 DEF TypeOK, Task, Steps
  <2> QED
    BY <1>3, <2>2 DEF Insert
<1> QED
  BY <1>1, <1>2, <1>3

LEMMA RevokeTask ==
    ASSUME TypeOK, NEW a \in Actors, RevokeAtCA(a)
    PROVE  /\ UNCHANGED <<opening, rows, faults, interrupted, raced>>
           /\ task' \in [Actors -> Task]
           /\ \A b \in Actors \ {a} : task'[b] = task[b]
           /\ task'[a].step = "mark" /\ task'[a].old = task[a].old
BY DEF RevokeAtCA, TypeOK, Task, Steps

LEMMA DroppingTask ==
    ASSUME TypeOK, Dropping
    PROVE  /\ UNCHANGED <<certs, raced>> /\ task' \in [Actors -> Task]
           /\ \A b \in Actors :
                \/ task'[b] = task[b]
                \/ task'[b].step = "idle" /\ Retiring(b) \subseteq interrupted'
           /\ interrupted \subseteq interrupted' /\ interrupted' \subseteq Nat
<1>1. \A b \in Actors : Retiring(b) \subseteq Nat
  BY DEF TypeOK, Task, Retiring
<1>2. CASE \E a \in Actors : Fail(a)
  <2>1. PICK a \in Actors : Fail(a)
    BY <1>2
  <2>2. /\ task' \in [Actors -> Task] /\ task'[a].step = "idle"
        /\ \A b \in Actors \ {a} : task'[b] = task[b]
    BY <2>1, FinishTask DEF Fail
  <2>3. /\ UNCHANGED <<certs, raced>>
        /\ interrupted' = interrupted \cup Retiring(a)
    BY <2>1 DEF Fail
  <2> QED
    BY <1>1, <2>2, <2>3 DEF TypeOK
<1>3. CASE Restart
  <2>1. task' \in [Actors -> Task] /\ \A b \in Actors : task'[b].step = "idle"
    BY <1>3 DEF Restart, IdleTask, Task, Steps
  <2>2. /\ UNCHANGED <<certs, raced>>
        /\ interrupted' = interrupted \cup UNION {Retiring(a) : a \in Actors}
    BY <1>3 DEF Restart
  <2> QED
    BY <1>1, <2>1, <2>2 DEF TypeOK
<1> QED
  BY <1>2, <1>3 DEF Dropping

-----------------------------------------------------------------------------
(* Every step preserves the types. *)

LEMMA OpeningStep ==
    ASSUME TypeOK, ReadBefore, NEW p \in Processes, OpenRead(p) \/ OpenWrite(p)
    PROVE  /\ UNCHANGED <<task, faults, interrupted>>
           /\ opening' \in [Processes -> {"closed", "reading", "open"}]
           /\ DOMAIN rows' = Processes
           /\ \A q \in Processes \ {p} : rows'[q] = rows[q]
           /\ OpenRead(p) => rows'[p] = PublicRows
           /\ OpenWrite(p) => rows'[p] = <<>>
<1>1. DOMAIN rows = Processes
  BY DEF ReadBefore
<1>2. CASE OpenRead(p)
  BY <1>1, <1>2 DEF OpenRead, OpenWrite, TypeOK
<1>3. CASE OpenWrite(p)
  BY <1>1, <1>3 DEF OpenRead, OpenWrite, TypeOK
<1> QED
  BY <1>2, <1>3

LEMMA PublicRowsFacts ==
    ASSUME TypeOK
    PROVE  /\ \A i \in DOMAIN PublicRows :
                /\ i \in DOMAIN certs /\ PublicRows[i] = certs[i]
                /\ certs[i] \in Certificate /\ Recorded(certs[i])
           /\ \A i \in DOMAIN certs :
                Public(certs[i]) /\ Recorded(certs[i]) => i \in DOMAIN PublicRows
BY SeqFacts DEF PublicRows

LEMMA NextType ==
    ASSUME IInv, Next
    PROVE  TypeOK'
<1>0. TypeOK /\ Held /\ ReadBefore
  BY DEF IInv
<1>1. CASE Signing
  BY <1>0, <1>1, SigningStep DEF TypeOK
<1>2. CASE Dropping
  <2>1. /\ certs' \in Seq(Certificate) /\ task' \in [Actors -> Task]
        /\ interrupted' \subseteq Nat /\ raced' \subseteq Names
    BY <1>0, <1>2, DroppingTask DEF TypeOK
  <2>2. /\ opening' \in [Processes -> {"closed", "reading", "open"}]
        /\ faults' \in 0..MaxFaults
        /\ \A p \in Processes : \A i \in DOMAIN rows'[p] : rows'[p][i] \in Certificate
    BY <1>0, <1>2, InventoryAssumption DEF Dropping, Restart, Fail, TypeOK
  <2> QED
    BY <2>1, <2>2 DEF TypeOK
<1>3. ASSUME NEW p \in Processes, OpenRead(p)
      PROVE  TypeOK'
  <2>1. \A q \in Processes : \A i \in DOMAIN rows'[q] : rows'[q][i] \in Certificate
    BY <1>0, <1>3, OpeningStep, PublicRowsFacts DEF TypeOK
  <2>2. UNCHANGED <<certs, raced>>
    BY <1>3 DEF OpenRead
  <2> QED
    BY <1>0, <1>3, <2>1, <2>2, OpeningStep DEF TypeOK
<1>4. ASSUME NEW p \in Processes, OpenWrite(p)
      PROVE  TypeOK'
  <2>1. \A q \in Processes : \A i \in DOMAIN rows'[q] : rows'[q][i] \in Certificate
    BY <1>0, <1>4, OpeningStep DEF TypeOK
  <2>2. certs' \in Seq(Certificate)
    BY <1>0, <1>4, RepairStep
  <2>3. raced' \subseteq Names
    BY <1>0, <1>4 DEF OpenWrite, TypeOK
  <2> QED
    BY <1>0, <1>4, <2>1, <2>2, <2>3, OpeningStep DEF TypeOK
<1>5. ASSUME NEW a \in Actors, Choosing(a)
      PROVE  TypeOK'
  BY <1>0, <1>5, ChoosingStep DEF TypeOK
<1>6. ASSUME NEW a \in Actors, Write(a) \/ Insert(a)
      PROVE  TypeOK'
  <2>1. certs' \in Seq(Certificate)
    BY <1>0, <1>6, WriteStep, InsertStep
  <2>2. raced' \subseteq Names
    <3>1. Write(a) => certs[task[a].new].name \in Names
      BY <1>0, WriteStep, SeqFacts DEF Certificate
    <3> QED
      BY <1>0, <1>6, <3>1, RecordingTask DEF Write, TypeOK
  <2> QED
    BY <1>0, <1>6, <2>1, <2>2, RecordingTask DEF TypeOK
<1>7. ASSUME NEW a \in Actors, RevokeAtCA(a)
      PROVE  TypeOK'
  BY <1>0, <1>7, RevokeStep, RevokeTask DEF TypeOK
<1>8. ASSUME NEW a \in Actors, Mark(a)
      PROVE  TypeOK'
  BY <1>0, <1>8, MarkStep, FinishTask DEF Mark, TypeOK
<1> QED
  BY <1>1, <1>2, <1>3, <1>4, <1>5, <1>6, <1>7, <1>8, Cases

-----------------------------------------------------------------------------
(* Every step leaves each actor what it relies on. *)

LEMMA IdleHolds ==
    ASSUME NEW a \in Actors, task'[a].step = "idle"
    PROVE  Holds(a)'
BY DEF Holds, Recording

LEMMA StillHolds ==
    ASSUME IInv, Next, NEW b \in Actors,
           task'[b] = task[b],
           task[b].step \in Recording => certs'[task[b].new] = certs[task[b].new],
           task[b].step = "mark" => certs'[task[b].old].status # "revoked",
           \A c \in Actors \ {b} :
             /\ task[b].step \in Recording /\ task'[c].step \in Recording
                  => task'[c].new # task[b].new
             /\ task[b].step = "mark" /\ task'[c].step = "mark"
                  => task'[c].old # task[b].old
    PROVE  Holds(b)'
<1> DEFINE new == task[b].new
           old == task[b].old
<1>1. Holds(b)
  BY DEF IInv, Held
<1>2. new \in DOMAIN certs => new \in DOMAIN certs'
  BY AllAge DEF Ages
<1>3. old \in DOMAIN certs /\ Recorded(certs[old]) =>
        /\ old \in DOMAIN certs' /\ Recorded(certs'[old])
        /\ certs[old].revokedAtCA => certs'[old].revokedAtCA
  BY AllAge DEF Ages
<1>4. task[b].step = "mark" => old \in DOMAIN certs /\ Recorded(certs[old])
  BY <1>1 DEF Holds
<1> QED
  BY <1>1, <1>2, <1>3, <1>4 DEF Holds, Recorded, Recording

(* The others do not notice what one actor does with its own certificate.  *)
LEMMA OthersHold ==
    ASSUME IInv, Next, NEW a \in Actors, NEW b \in Actors \ {a},
           \A c \in Actors \ {a} : task'[c] = task[c],
           task[b].step \in Recording => certs'[task[b].new] = certs[task[b].new],
           task[b].step = "mark" => certs'[task[b].old].status # "revoked",
           task[b].step \in Recording /\ task'[a].step \in Recording
                => task'[a].new # task[b].new,
           task[b].step = "mark" /\ task'[a].step = "mark"
                => task'[a].old # task[b].old
    PROVE  Holds(b)'
<1>1. ASSUME NEW c \in Actors \ {b}
      PROVE  /\ task[b].step \in Recording /\ task'[c].step \in Recording
                  => task'[c].new # task[b].new
             /\ task[b].step = "mark" /\ task'[c].step = "mark"
                  => task'[c].old # task[b].old
  <2>1. CASE c = a
    BY <2>1
  <2>2. CASE c # a
    BY <2>2 DEF IInv, Held, Holds
  <2> QED
    BY <2>1, <2>2
<1> QED
  BY <1>1, StillHolds

LEMMA NextHeld ==
    ASSUME IInv, Next
    PROVE  Held'
<1>0. TypeOK /\ Held /\ ReadBefore /\ RevokedAtItsIssuer
  BY DEF IInv
<1>own. /\ \A b \in Actors : task[b].step \in Recording =>
           task[b].new \in DOMAIN certs /\ ~Recorded(certs[task[b].new])
      /\ \A b \in Actors : task[b].step = "mark" =>
           /\ task[b].old \in DOMAIN certs /\ Recorded(certs[task[b].old])
           /\ certs[task[b].old].revokedAtCA
           /\ certs[task[b].old].status # "revoked"
  BY <1>0 DEF Held, Holds
<1>1. CASE Signing
  <2>1. UNCHANGED task \/ ~UNCHANGED task
    OBVIOUS
  <2>2. /\ \A i \in DOMAIN certs : certs'[i] = certs[i]
        /\ Len(certs) + 1 \notin DOMAIN certs
    BY <1>0, <1>1, SigningStep
  <2>3. CASE UNCHANGED task
    <3> SUFFICES ASSUME NEW b \in Actors PROVE Holds(b)'
      BY DEF Held
    <3>1. Holds(b)
      BY <1>0 DEF Held
    <3> QED
      BY <1>own, <2>2, <2>3, <3>1, StillHolds DEF Holds
  <2>4. CASE task' # task
    <3> DEFINE new == Len(certs) + 1
    <3>1. PICK a \in Actors \ Importers :
            /\ task[a].step = "idle"
            /\ \A b \in Actors \ {a} : task'[b] = task[b]
            /\ task'[a].step \in {"select", "insert"} /\ task'[a].new = new
            /\ certs'[new].kind # "acme"
            /\ task'[a].step = "insert" => certs'[new].kind = "private"
            /\ task'[a].old # 0 => /\ task'[a].old \in DOMAIN certs
                                   /\ Recorded(certs[task'[a].old])
      BY <1>0, <1>1, <2>4, SigningStep
    <3>2. new \in DOMAIN certs' /\ ~Recorded(certs'[new])
      BY <1>0, <1>1, SigningStep
    <3>3. task'[a].old # 0 => /\ task'[a].old \in DOMAIN certs'
                              /\ Recorded(certs'[task'[a].old])
      BY <3>1, AllAge DEF Ages
    <3>4. \A b \in Actors \ {a} : task'[b].step \in Recording => task'[b].new # new
      BY <1>own, <2>2, <3>1
    <3>5. Holds(a)'
      BY <3>1, <3>2, <3>3, <3>4 DEF Holds, Recorded, Recording
    <3>6. ASSUME NEW b \in Actors \ {a} PROVE Holds(b)'
      BY <1>own, <2>2, <3>1, OthersHold
    <3> QED
      BY <3>5, <3>6 DEF Held
  <2> QED
    BY <2>3, <2>4
<1>2. CASE Dropping
  <2> SUFFICES ASSUME NEW b \in Actors PROVE Holds(b)'
    BY DEF Held
  <2>1. CASE task'[b] = task[b]
    <3>1. UNCHANGED certs
      BY <1>0, <1>2, DroppingTask
    <3>2. \A c \in Actors : task'[c] = task[c] \/ task'[c].step = "idle"
      BY <1>0, <1>2, DroppingTask
    <3>3. Holds(b)
      BY <1>0 DEF Held
    <3> QED
      BY <1>own, <2>1, <3>1, <3>2, <3>3, StillHolds DEF Holds, Recording
  <2>2. CASE task'[b].step = "idle"
    BY <2>2, IdleHolds
  <2> QED
    BY <1>0, <1>2, <2>1, <2>2, DroppingTask
<1>3. ASSUME NEW p \in Processes, OpenRead(p)
      PROVE  Held'
  BY <1>0, <1>3 DEF OpenRead, Held, Holds, Recorded
<1>4. ASSUME NEW p \in Processes, OpenWrite(p)
      PROVE  Held'
  <2>1. UNCHANGED task
    BY <1>4 DEF OpenWrite
  <2> SUFFICES ASSUME NEW b \in Actors PROVE Holds(b)'
    BY DEF Held
  <2>2. task[b].step \in Recording => certs'[task[b].new] = certs[task[b].new]
    <3> SUFFICES ASSUME task[b].step \in Recording
                 PROVE  certs'[task[b].new] = certs[task[b].new]
      OBVIOUS
    <3> DEFINE new == task[b].new
    <3>1. new \in DOMAIN certs /\ new \notin DOMAIN rows[p]
      BY <1>own DEF IInv, ReadBefore
    <3>2. /\ certs'[new] = [certs[new] EXCEPT !.renewedFrom = certs'[new].renewedFrom,
                                              !.status = certs'[new].status]
          /\ certs'[new].status = certs[new].status
          /\ certs'[new].renewedFrom = certs[new].renewedFrom
      BY <1>0, <1>4, <3>1, RepairStep
    <3>3. certs[new] \in Certificate
      BY <1>0, <3>1, SeqFacts
    <3> HIDE DEF new
    <3>4. certs'[new] = certs[new]
      BY <3>2, <3>3 DEF Certificate
    <3> QED
      BY <3>4 DEF new
  <2>3. task[b].step = "mark" => certs'[task[b].old].status # "revoked"
    BY <1>0, <1>4, <1>own, RepairStep
  <2>4. Holds(b)
    BY <1>0 DEF Held
  <2> QED
    BY <2>1, <2>2, <2>3, <2>4, StillHolds DEF Holds
<1>5. ASSUME NEW a \in Actors, Choosing(a)
      PROVE  Held'
  <2>1. UNCHANGED certs
    BY <1>0, <1>5, ChoosingStep
  <2>2. \A b \in Actors \ {a} : task'[b] = task[b]
    BY <1>0, <1>5, ChoosingStep
  <2>3. task'[a].step \in {"idle", "write", "revoke"}
    BY <1>0, <1>5, ChoosingStep
  <2>4. ASSUME NEW b \in Actors \ {a}, task[b].step \in Recording, task'[a].step \in Recording
        PROVE  task'[a].new # task[b].new
    <3>1. \/ task[a].step = "select" /\ task'[a].new = task[a].new
          \/ /\ a \in Importers
             /\ certs[task'[a].new].kind = "acme"
      BY <1>0, <1>5, <2>4, ChoosingStep DEF Recording
    <3>2. certs[task[b].new].kind = "acme" => b \in Importers
      BY <1>0, <2>4 DEF Held, Holds
    <3>3. task[a].step = "select" => task[b].new # task[a].new
      BY <1>0, <2>4 DEF Held, Holds, Recording
    <3> QED
      BY <3>1, <3>2, <3>3, InventoryAssumption
  <2>5. ASSUME NEW b \in Actors \ {a} PROVE Holds(b)'
    BY <1>own, <2>1, <2>2, <2>3, <2>4, OthersHold
  <2>6. CASE task'[a].step = "idle"
    BY <2>5, <2>6, IdleHolds DEF Held
  <2>7. CASE task'[a].step = "revoke"
    <3>1. task'[a].old \in DOMAIN certs /\ Recorded(certs[task'[a].old]) /\ task'[a].old # 0
      BY <1>0, <1>5, <2>7, ChoosingStep, SeqFacts
    <3> QED
      BY <2>1, <2>5, <2>7, <3>1 DEF Held, Holds, Recorded, Recording
  <2>8. CASE task'[a].step = "write"
    <3>1. task'[a].old # 0 => task'[a].old \in DOMAIN certs /\ Recorded(certs[task'[a].old])
      BY <1>0, <1>5, <2>8, ChoosingStep
    <3>2. /\ task'[a].new \in DOMAIN certs /\ ~Recorded(certs[task'[a].new])
          /\ certs[task'[a].new].kind = "acme" <=> a \in Importers
      <4>1. CASE task[a].step = "select" /\ task'[a].new = task[a].new
        BY <1>0, <4>1 DEF Held, Holds, Recording
      <4>2. CASE ~(task[a].step = "select" /\ task'[a].new = task[a].new)
        BY <1>0, <1>5, <2>8, <4>2, ChoosingStep
      <4> QED
        BY <4>1, <4>2
    <3>3. \A b \in Actors \ {a} : task'[b].step \in Recording => task'[b].new # task'[a].new
      BY <2>2, <2>4, <2>8 DEF Recording
    <3>4. Holds(a)'
      BY <2>1, <2>8, <3>1, <3>2, <3>3 DEF Holds, Recorded, Recording
    <3> QED
      BY <2>5, <3>4 DEF Held
  <2> QED
    BY <2>3, <2>6, <2>7, <2>8
<1>6. ASSUME NEW a \in Actors, Write(a) \/ Insert(a)
      PROVE  Held'
  <2> DEFINE new == task[a].new
             old == task[a].old
  <2>1. /\ task[a].step \in Recording
        /\ \A i \in DOMAIN certs \ {new, old} : certs'[i] = certs[i]
        /\ \A i \in DOMAIN certs : i = old =>
             certs'[i] = certs[i] \/ certs'[i].status = "superseded"
    <3>1. CASE Write(a)
      <4>1. \A i \in DOMAIN certs : i # 0
        BY <1>0, SeqFacts
      <4>2. old # 0 /\ old \in DOMAIN certs =>
              certs'[old] = [certs[old] EXCEPT !.status = "superseded"]
        BY <1>0, <3>1, WriteStep
      <4>3. \A i \in DOMAIN certs : i = old => certs'[i].status = "superseded"
        BY <1>0, <4>1, <4>2, SeqFacts DEF Certificate
      <4> QED
        BY <1>0, <3>1, <4>3, WriteStep DEF Write, Recording
    <3>2. CASE Insert(a)
      <4>1. old # 0 => old # new
        BY <1>0, <3>2, InsertStep
      <4>2. \A i \in DOMAIN certs : i # 0
        BY <1>0, SeqFacts
      <4> QED
        BY <1>0, <3>2, <4>1, <4>2, InsertStep DEF Insert, Recording
    <3> QED
      BY <1>6, <3>1, <3>2
  <2>2. /\ \A b \in Actors \ {a} : task'[b] = task[b]
        /\ task'[a].step \in {"idle", "revoke"}
    BY <1>0, <1>6, RecordingTask
  <2>3. old # 0 => old \in DOMAIN certs /\ Recorded(certs[old])
    BY <1>0, <2>1 DEF Held, Holds, Recording
  <2>4. \A i \in DOMAIN certs : i # 0
    BY <1>0, SeqFacts
  <2>5. ASSUME NEW b \in Actors \ {a} PROVE Holds(b)'
    <3>1. task[b].step \in Recording => task[b].new # new /\ task[b].new # old
      BY <1>0, <1>own, <2>1, <2>3, <2>4 DEF Held, Holds
    <3>2. task[b].step \in Recording => certs'[task[b].new] = certs[task[b].new]
      BY <1>own, <2>1, <3>1
    <3>3. task[b].step = "mark" => task[b].old # new
      BY <1>own, <2>1
    <3>4. task[b].step = "mark" => certs'[task[b].old].status # "revoked"
      BY <1>own, <2>1, <3>3
    <3> QED
      BY <2>2, <3>2, <3>4, OthersHold DEF Recording
  <2>6. Holds(a)'
    <3>1. CASE task'[a].step = "idle"
      BY <3>1, IdleHolds
    <3>2. CASE task'[a].step = "revoke"
      <4>1. task'[a].old = old /\ old # 0
        BY <1>0, <1>6, <3>2, RecordingTask
      <4>2. old \in DOMAIN certs' /\ Recorded(certs'[old])
        BY <2>3, <4>1, AllAge DEF Ages
      <4> QED
        BY <3>2, <4>1, <4>2 DEF Holds, Recorded, Recording
    <3> QED
      BY <2>2, <3>1, <3>2
  <2> QED
    BY <2>5, <2>6 DEF Held
<1>7. ASSUME NEW a \in Actors, RevokeAtCA(a)
      PROVE  Held'
  <2> DEFINE old == task[a].old
  <2>1. /\ old \in DOMAIN certs /\ Recorded(certs[old]) /\ ~certs[old].revokedAtCA
        /\ certs'[old] = [certs[old] EXCEPT !.revokedAtCA = TRUE]
        /\ \A i \in DOMAIN certs \ {old} : certs'[i] = certs[i]
    BY <1>0, <1>7, RevokeStep
  <2>2. /\ \A b \in Actors \ {a} : task'[b] = task[b]
        /\ task'[a].step = "mark" /\ task'[a].old = old
    BY <1>0, <1>7, RevokeTask
  <2>3. certs[old] \in Certificate
    BY <1>0, <2>1, SeqFacts
  <2>4. /\ certs'[old].revokedAtCA /\ certs'[old].status = certs[old].status
        /\ certs[old].status # "revoked"
    BY <1>0, <2>1, <2>3 DEF Certificate, RevokedAtItsIssuer
  <2>5. \A b \in Actors \ {a} : task[b].step = "mark" => task[b].old # old
    BY <1>own, <2>1
  <2>6. ASSUME NEW b \in Actors \ {a} PROVE Holds(b)'
    <3>1. task[b].step \in Recording => certs'[task[b].new] = certs[task[b].new]
      BY <1>own, <2>1
    <3>2. task[b].step = "mark" => certs'[task[b].old].status # "revoked"
      BY <1>own, <2>1, <2>5
    <3> QED
      BY <2>2, <2>5, <3>1, <3>2, OthersHold DEF Recording
  <2>7. old \in DOMAIN certs' /\ Recorded(certs'[old]) /\ old # 0
    BY <1>0, <2>1, AllAge, SeqFacts DEF Ages
  <2>8. Holds(a)'
    BY <2>2, <2>4, <2>5, <2>7 DEF Holds, Recorded, Recording
  <2> QED
    BY <2>6, <2>8 DEF Held
<1>8. ASSUME NEW a \in Actors, Mark(a)
      PROVE  Held'
  <2> DEFINE old == task[a].old
  <2>1. /\ old \in DOMAIN certs /\ Recorded(certs[old])
        /\ \A i \in DOMAIN certs \ {old} : certs'[i] = certs[i]
    BY <1>0, <1>8, MarkStep
  <2>2. /\ \A b \in Actors \ {a} : task'[b] = task[b]
        /\ task'[a].step = "idle"
    BY <1>0, <1>8, FinishTask DEF Mark
  <2>3. ASSUME NEW b \in Actors \ {a} PROVE Holds(b)'
    <3>1. task[b].step = "mark" => task[b].old # old
      BY <1>0, <1>8 DEF Held, Holds, Mark
    <3>2. task[b].step \in Recording => certs'[task[b].new] = certs[task[b].new]
      BY <1>own, <2>1
    <3>3. task[b].step = "mark" => certs'[task[b].old].status # "revoked"
      BY <1>own, <2>1, <3>1
    <3> QED
      BY <2>2, <3>2, <3>3, OthersHold DEF Recording
  <2> QED
    BY <2>2, <2>3, IdleHolds DEF Held
<1> QED
  BY <1>1, <1>2, <1>3, <1>4, <1>5, <1>6, <1>7, <1>8, Cases

-----------------------------------------------------------------------------
(* Every step preserves what relates the certificates to one another.      *)

(* What a step may write in a certificate that was there before.           *)
Written(i) ==
    /\ \/ certs'[i].revokedAtCA = certs[i].revokedAtCA
       \/ \E a \in Actors : RevokeAtCA(a) /\ i = task[a].old /\ Recorded(certs[i])
    /\ \/ certs'[i].renewedFrom \in {0, certs[i].renewedFrom}
       \/ /\ certs'[i].renewedFrom \in DOMAIN certs
          /\ Recorded(certs[certs'[i].renewedFrom])
    /\ \/ certs'[i].status = certs[i].status
       \/ certs'[i].status = "superseded" /\ Recorded(certs[i])
       \/ /\ certs'[i].status # "active" /\ certs[i].revokedAtCA /\ Recorded(certs[i])
       \/ \E a \in Actors : /\ Write(a) \/ Insert(a)
                            /\ i = task[a].new
                            /\ ~Recorded(certs[i])
                            /\ certs'[i].status = "active"

LEMMA AllWritten ==
    ASSUME IInv, Next
    PROVE  \A i \in DOMAIN certs : Written(i)
<1> SUFFICES ASSUME NEW i \in DOMAIN certs PROVE Written(i)
  OBVIOUS
<1>0. /\ TypeOK /\ Held /\ ReadBefore
      /\ certs[i] \in Certificate /\ i # 0
  BY SeqFacts DEF IInv
<1>1. CASE certs'[i] = certs[i]
  BY <1>1 DEF Written
<1>2. ASSUME NEW p \in Processes, OpenWrite(p)
      PROVE  Written(i)
  <2>1. certs'[i].revokedAtCA = certs[i].revokedAtCA
    <3>1. certs'[i] = [certs[i] EXCEPT !.renewedFrom = certs'[i].renewedFrom,
                                       !.status = certs'[i].status]
      BY <1>0, <1>2, RepairStep
    <3> QED
      BY <1>0, <3>1 DEF Certificate
  <2>2. \/ certs'[i].renewedFrom = certs[i].renewedFrom
        \/ /\ certs'[i].renewedFrom \in DOMAIN certs
           /\ Recorded(certs[certs'[i].renewedFrom])
    <3>1. \/ certs'[i].renewedFrom = certs[i].renewedFrom
          \/ certs'[i].renewedFrom \in DOMAIN rows[p]
      BY <1>0, <1>2, RepairStep DEF Earlier, ReadRows
    <3> QED
      BY <1>0, <3>1 DEF ReadBefore
  <2>3. \/ certs'[i].status = certs[i].status
        \/ certs'[i].status = "superseded" /\ Recorded(certs[i])
    <3>1. \/ certs'[i].status = certs[i].status
          \/ certs'[i].status = "superseded" /\ i \in DOMAIN rows[p]
      BY <1>0, <1>2, RepairStep
    <3> QED
      BY <1>0, <3>1 DEF ReadBefore
  <2> QED
    BY <2>1, <2>2, <2>3 DEF Written
<1>3. ASSUME NEW a \in Actors, Write(a) \/ Insert(a)
      PROVE  Written(i)
  <2> DEFINE new == task[a].new
             old == task[a].old
  <2>1. CASE i = new
    <3>1. /\ certs'[i] = [certs[i] EXCEPT !.status = "active", !.renewedFrom = old]
          /\ ~Recorded(certs[i])
          /\ old # 0 => old \in DOMAIN certs /\ Recorded(certs[old])
      BY <1>0, <1>3, <2>1, WriteStep, InsertStep
    <3>2. /\ certs'[i].status = "active" /\ certs'[i].renewedFrom = old
          /\ certs'[i].revokedAtCA = certs[i].revokedAtCA
      BY <1>0, <3>1 DEF Certificate
    <3> QED
      BY <1>3, <2>1, <3>1, <3>2 DEF Written
  <2>2. CASE i # new /\ i = old /\ Write(a)
    <3>1. certs'[i] = [certs[i] EXCEPT !.status = "superseded"] /\ Recorded(certs[i])
      BY <1>0, <2>2, WriteStep
    <3> QED
      BY <1>0, <3>1 DEF Written, Certificate
  <2>3. CASE i # new /\ ~(i = old /\ Write(a))
    BY <1>0, <1>1, <1>3, <2>3, WriteStep, InsertStep
  <2> QED
    BY <2>1, <2>2, <2>3
<1>4. ASSUME NEW a \in Actors, RevokeAtCA(a)
      PROVE  Written(i)
  <2>1. CASE i = task[a].old
    <3>1. certs'[i] = [certs[i] EXCEPT !.revokedAtCA = TRUE] /\ Recorded(certs[i])
      BY <1>0, <1>4, <2>1, RevokeStep
    <3> QED
      BY <1>0, <1>4, <2>1, <3>1 DEF Written, Certificate
  <2>2. CASE i # task[a].old
    BY <1>0, <1>1, <1>4, <2>2, RevokeStep
  <2> QED
    BY <2>1, <2>2
<1>5. ASSUME NEW a \in Actors, Mark(a)
      PROVE  Written(i)
  <2>1. CASE i = task[a].old
    <3>1. /\ certs'[i] = [certs[i] EXCEPT !.status = certs'[i].status]
          /\ certs'[i].status \in {"superseded", "revoked"}
          /\ certs[i].revokedAtCA /\ Recorded(certs[i])
      BY <1>0, <1>5, <2>1, MarkStep
    <3> QED
      BY <1>0, <3>1 DEF Written, Certificate
  <2>2. CASE i # task[a].old
    BY <1>0, <1>1, <1>5, <2>2, MarkStep
  <2> QED
    BY <2>1, <2>2
<1>6. Dropping \/ (\E p \in Processes : OpenRead(p)) \/ (\E a \in Actors : Choosing(a))
        => UNCHANGED certs
  BY DEF Dropping, Restart, Fail, OpenRead, Choosing, SelectPrevious, SelectImported, Revoke
<1>7. Signing => certs'[i] = certs[i]
  BY <1>0, SigningStep
<1> QED
  BY <1>1, <1>2, <1>3, <1>4, <1>5, <1>6, <1>7, Cases

(* A certificate that was not there before has only been signed.           *)
LEMMA NewOnes ==
    ASSUME IInv, Next, NEW i \in DOMAIN certs' \ DOMAIN certs
    PROVE  /\ certs'[i].status = "issued" /\ ~certs'[i].revokedAtCA
           /\ certs'[i].renewedFrom = 0
<1>0. TypeOK /\ Held /\ ReadBefore
  BY DEF IInv
<1>1. CASE Signing
  BY <1>0, <1>1, SigningStep DEF Recorded
<1>2. DOMAIN certs' # DOMAIN certs
  OBVIOUS
<1>3. ~Signing => DOMAIN certs' = DOMAIN certs
  <2>1. Dropping \/ (\E p \in Processes : OpenRead(p)) \/ (\E a \in Actors : Choosing(a))
          => UNCHANGED certs
    BY DEF Dropping, Restart, Fail, OpenRead, Choosing, SelectPrevious, SelectImported, Revoke
  <2>2. (\E p \in Processes : OpenWrite(p))
          \/ (\E a \in Actors : Write(a) \/ Insert(a) \/ RevokeAtCA(a) \/ Mark(a))
          => DOMAIN certs' = DOMAIN certs
    BY <1>0, RepairStep, WriteStep, InsertStep, RevokeStep, MarkStep
  <2> QED
    BY <2>1, <2>2, Cases
<1> QED
  BY <1>1, <1>2, <1>3

LEMMA NextSound ==
    ASSUME IInv, Next
    PROVE  Sound'
<1> SUFFICES ASSUME NEW i \in DOMAIN certs'
             PROVE  /\ ~Recorded(certs'[i]) => ~certs'[i].revokedAtCA
                    /\ certs'[i].renewedFrom # 0 =>
                         /\ certs'[i].renewedFrom \in DOMAIN certs'
                         /\ Recorded(certs'[certs'[i].renewedFrom])
  BY DEF Sound, Recorded
<1>1. CASE i \notin DOMAIN certs
  BY <1>1, NewOnes
<1>2. CASE i \in DOMAIN certs
  <2>1. Written(i) /\ Ages(i)
    BY <1>2, AllWritten, AllAge
  <2>2. /\ ~Recorded(certs[i]) => ~certs[i].revokedAtCA
        /\ certs[i].renewedFrom # 0 =>
             certs[i].renewedFrom \in DOMAIN certs /\ Recorded(certs[certs[i].renewedFrom])
    BY <1>2 DEF IInv, Sound
  <2>3. ~Recorded(certs'[i]) => ~certs'[i].revokedAtCA
    BY <2>1, <2>2 DEF Written, Ages
  <2>4. certs'[i].renewedFrom # 0 =>
          certs'[i].renewedFrom \in DOMAIN certs /\ Recorded(certs[certs'[i].renewedFrom])
    BY <2>1, <2>2 DEF Written
  <2> QED
    BY <2>3, <2>4, AllAge DEF Ages
<1> QED
  BY <1>1, <1>2

LEMMA NextRevokedAt ==
    ASSUME IInv, Next
    PROVE  RevokedAtItsIssuer'
<1> SUFFICES ASSUME NEW i \in DOMAIN certs', certs'[i].status = "revoked"
             PROVE  certs'[i].revokedAtCA
  BY DEF RevokedAtItsIssuer
<1>1. i \in DOMAIN certs
  BY NewOnes
<1>2. Written(i) /\ Ages(i)
  BY <1>1, AllWritten, AllAge
<1>3. certs[i].status = "revoked" => certs[i].revokedAtCA
  BY <1>1 DEF IInv, RevokedAtItsIssuer
<1> QED
  BY <1>2, <1>3 DEF Written, Ages

LEMMA NextRead ==
    ASSUME IInv, Next
    PROVE  ReadBefore'
<1>0. TypeOK /\ Held /\ ReadBefore
  BY DEF IInv
<1>1. DOMAIN rows' = Processes
  BY <1>0, Cases, SigningStep, ChoosingStep, RecordingTask, RevokeTask, OpeningStep
     DEF ReadBefore, Dropping, Restart, Fail, Mark
<1>2. ASSUME NEW p \in Processes, NEW i \in DOMAIN rows'[p]
      PROVE  /\ i \in DOMAIN certs'
             /\ rows'[p][i].name = certs'[i].name
             /\ Recorded(certs'[i])
             /\ rows'[p][i].status # "active" => certs'[i].status # "active"
  <2>1. \/ rows'[p] = rows[p]
        \/ rows'[p] = PublicRows /\ UNCHANGED certs
        \/ rows'[p] = <<>>
    <3>1. \A q \in Processes : OpenRead(q) \/ OpenWrite(q) =>
            \/ rows'[p] = rows[p]
            \/ rows'[p] = PublicRows /\ UNCHANGED certs
            \/ rows'[p] = <<>>
      BY <1>0, OpeningStep DEF OpenRead
    <3> QED
      BY <1>0, <3>1, Cases, SigningStep, ChoosingStep, RecordingTask, RevokeTask
         DEF Dropping, Restart, Fail, Mark
  <2>2. CASE rows'[p] = rows[p]
    <3>1. /\ i \in DOMAIN certs /\ rows[p][i].name = certs[i].name /\ Recorded(certs[i])
          /\ rows[p][i].status # "active" => certs[i].status # "active"
      BY <1>0, <2>2 DEF ReadBefore
    <3> QED
      BY <2>2, <3>1, AllAge DEF Ages
  <2>3. CASE rows'[p] = PublicRows /\ UNCHANGED certs
    BY <1>0, <2>3, PublicRowsFacts
  <2>4. rows'[p] # <<>>
    OBVIOUS
  <2> QED
    BY <2>1, <2>2, <2>3, <2>4
<1> QED
  BY <1>1, <1>2 DEF ReadBefore, Recorded

(* A certificate becomes active by being recorded, and by nothing else.    *)
LEMMA BecomesActive ==
    ASSUME IInv, Next, NEW i \in DOMAIN certs', certs'[i].status = "active"
    PROVE  /\ i \in DOMAIN certs
           /\ \/ certs[i].status = "active"
              \/ \E a \in Actors : /\ Write(a) \/ Insert(a)
                                   /\ i = task[a].new /\ ~Recorded(certs[i])
<1>1. i \in DOMAIN certs
  BY NewOnes
<1>2. Written(i)
  BY <1>1, AllWritten
<1> QED
  BY <1>1, <1>2 DEF Written

LEMMA NextOne ==
    ASSUME IInv, Next
    PROVE  OneUnlessRaced'
<1>0. TypeOK /\ Held /\ ReadBefore
  BY DEF IInv
<1> SUFFICES ASSUME NEW n \in Names \ raced',
                    NEW i \in DOMAIN certs', NEW j \in DOMAIN certs',
                    Public(certs'[i]), certs'[i].name = n, certs'[i].status = "active",
                    Public(certs'[j]), certs'[j].name = n, certs'[j].status = "active"
             PROVE  i = j
  BY DEF OneUnlessRaced, ActivePublic, Public
<1>1. /\ i \in DOMAIN certs /\ Public(certs[i]) /\ certs[i].name = n
      /\ j \in DOMAIN certs /\ Public(certs[j]) /\ certs[j].name = n
  BY BecomesActive, AllAge DEF Ages, Public
<1>2. CASE \E a \in Actors : Write(a) /\ task[a].new \in {i, j}
  <2>1. PICK a \in Actors : Write(a) /\ task[a].new \in {i, j}
    BY <1>2
  <2> DEFINE new == task[a].new
             old == task[a].old
  <2>2. certs[new].name = n /\ Public(certs[new])
    BY <1>1, <2>1
  <2>3. n \notin raced /\ ActivePublic(n) = {old} \ {0}
    BY <2>1, <2>2 DEF Write
  <2>4. ASSUME NEW k \in {i, j}, k # new
        PROVE  FALSE
    <3>1. certs[k].status = "active"
      <4>1. \A i_1 \in DOMAIN certs \ {new, old} : certs'[i_1] = certs[i_1]
        BY <1>0, <2>1, WriteStep
      <4>2. k = old => certs'[k].status = "superseded"
        <5>1. old # 0 => certs'[old] = [certs[old] EXCEPT !.status = "superseded"]
          BY <1>0, <2>1, WriteStep
        <5>2. k # 0 /\ certs[k] \in Certificate
          BY <1>0, <1>1, <2>4, SeqFacts
        <5> QED
          BY <5>1, <5>2 DEF Certificate
      <4> QED
        BY <1>1, <2>4, <4>1, <4>2
    <3>2. k \in ActivePublic(n)
      BY <1>1, <2>4, <3>1 DEF ActivePublic
    <3>3. k = old /\ k # 0
      BY <2>3, <3>2
    <3>4. certs'[old] = [certs[old] EXCEPT !.status = "superseded"]
      BY <1>0, <2>1, <3>3, WriteStep
    <3>5. certs[old] \in Certificate
      BY <1>0, <1>1, <2>4, <3>3, SeqFacts
    <3>6. certs'[k].status = "superseded"
      BY <3>3, <3>4, <3>5 DEF Certificate
    <3> QED
      BY <2>4, <3>6
  <2> QED
    BY <2>4
<1>3. CASE \E p \in Processes : OpenWrite(p) /\ rows[p] = PublicRows
  <2>1. PICK p \in Processes : OpenWrite(p) /\ rows[p] = PublicRows
    BY <1>3
  <2>2. \A k \in {i, j} : certs[k].status = "active"
    BY <1>0, <1>1, <2>1, RepairStep
  <2>3. \A k \in {i, j} : /\ k \in DOMAIN rows[p] /\ rows[p][k].name = n
                          /\ rows[p][k].status = "active"
    BY <1>0, <1>1, <2>1, <2>2, PublicRowsFacts DEF Recorded
  <2>4. \A k \in {i, j} : Later(p, k) = {}
    <3> SUFFICES ASSUME NEW k \in {i, j}, Later(p, k) # {} PROVE FALSE
      OBVIOUS
    <3>1. certs'[k].status = "superseded"
      BY <1>0, <1>1, <2>1, <2>3, RepairStep
    <3> QED
      BY <3>1
  <2>5. ~(i < j) /\ ~(j < i)
    BY <2>3, <2>4 DEF Later, ReadRows
  <2> QED
    BY <1>0, <1>1, <2>5, SeqFacts
<1>4. CASE /\ ~\E a \in Actors : Write(a) /\ task[a].new \in {i, j}
           /\ ~\E p \in Processes : OpenWrite(p) /\ rows[p] = PublicRows
  <2>1. \A a \in Actors : Insert(a) => task[a].new \notin {i, j}
    BY <1>0, <1>1, InsertStep DEF Public
  <2>2. certs[i].status = "active" /\ certs[j].status = "active"
    BY <1>4, <2>1, BecomesActive
  <2>3. raced \subseteq raced'
    <3>1. \A a \in Actors : Mark(a) => raced' = raced
      BY DEF Mark
    <3>2. \A a \in Actors : Write(a) => raced \subseteq raced'
      BY DEF Write
    <3>3. \A p \in Processes : OpenRead(p) \/ OpenWrite(p) => raced' = raced
      BY <1>4 DEF OpenRead, OpenWrite
    <3> QED
      BY <1>0, <3>1, <3>2, <3>3, Cases, SigningStep, DroppingTask, ChoosingStep,
         RecordingTask, RevokeTask
  <2>4. i \in ActivePublic(n) /\ j \in ActivePublic(n)
    BY <1>1, <2>2 DEF ActivePublic
  <2> QED
    BY <2>3, <2>4 DEF IInv, OneUnlessRaced
<1> QED
  BY <1>2, <1>3, <1>4

(* A retirement that is under way goes on, is finished, or is interrupted. *)
LEMMA RetirementGoesOn ==
    ASSUME IInv, Next, NEW b \in Actors, NEW r \in Retiring(b), r \in DOMAIN certs,
           Recorded(certs[r])
    PROVE  \/ r \in Retiring(b)' \/ r \in interrupted'
           \/ certs'[r].status # "active"
<1>0. TypeOK /\ Held /\ ReadBefore
  BY DEF IInv
<1>1. task[b].step \in {"revoke", "mark"} /\ task[b].old = r
  BY DEF Retiring
<1>2. task'[b] = task[b] => r \in Retiring(b)'
  BY DEF Retiring
<1>3. CASE Dropping
  BY <1>0, <1>2, <1>3, DroppingTask
<1>4. CASE Signing
  BY <1>0, <1>1, <1>2, <1>4, SigningStep
<1>5. ASSUME NEW p \in Processes, OpenRead(p) \/ OpenWrite(p)
      PROVE  r \in Retiring(b)'
  BY <1>2, <1>5 DEF OpenRead, OpenWrite
<1>6. ASSUME NEW a \in Actors, Choosing(a)
      PROVE  r \in Retiring(b)'
  BY <1>0, <1>2, <1>6, ChoosingStep
<1>7. ASSUME NEW a \in Actors, Write(a) \/ Insert(a)
      PROVE  r \in Retiring(b)'
  <2>1. CASE a = b
    BY <1>1, <1>7, <2>1 DEF Write, Insert
  <2> QED
    BY <1>0, <1>2, <1>7, <2>1, RecordingTask
<1>8. ASSUME NEW a \in Actors, RevokeAtCA(a)
      PROVE  r \in Retiring(b)'
  BY <1>0, <1>1, <1>2, <1>8, RevokeTask DEF Retiring
<1>9. ASSUME NEW a \in Actors, Mark(a)
      PROVE  r \in Retiring(b)' \/ certs'[r].status # "active"
  <2>1. CASE a = b
    BY <1>0, <1>1, <1>9, <2>1, MarkStep
  <2>2. CASE a # b
    BY <1>0, <1>2, <1>9, <2>2, FinishTask DEF Mark
  <2> QED
    BY <2>1, <2>2
<1> QED
  BY <1>3, <1>4, <1>5, <1>6, <1>7, <1>8, <1>9, Cases

LEMMA InterruptedStays ==
    ASSUME IInv, Next
    PROVE  interrupted \subseteq interrupted'
BY Cases, SigningStep, DroppingTask, ChoosingStep, RecordingTask, RevokeTask, OpeningStep
   DEF IInv, Mark

LEMMA NextShown ==
    ASSUME IInv, Next
    PROVE  RevocationIsShown'
<1>0. TypeOK /\ Held /\ ReadBefore
  BY DEF IInv
<1> SUFFICES ASSUME NEW i \in DOMAIN certs',
                    certs'[i].revokedAtCA, certs'[i].status = "active"
             PROVE  \/ \E a \in Actors : task'[a].step = "mark" /\ task'[a].old = i
                    \/ i \in interrupted'
  BY DEF RevocationIsShown
<1>1. i \in DOMAIN certs /\ Written(i) /\ Ages(i)
  BY BecomesActive, AllWritten, AllAge
<1>2. CASE \E a \in Actors : RevokeAtCA(a) /\ i = task[a].old
  BY <1>0, <1>2, RevokeTask
<1>3. CASE ~\E a \in Actors : RevokeAtCA(a) /\ i = task[a].old
  <2>1. certs[i].revokedAtCA
    BY <1>1, <1>3 DEF Written
  <2>2. Recorded(certs[i]) /\ certs[i].status = "active"
    BY <1>1, <2>1, BecomesActive DEF IInv, Sound, Recorded
  <2>3. CASE i \in interrupted
    BY <2>3, InterruptedStays
  <2>4. ASSUME NEW b \in Actors, task[b].step = "mark", task[b].old = i
        PROVE  \/ \E a \in Actors : task'[a].step = "mark" /\ task'[a].old = i
               \/ i \in interrupted'
    <3>1. i \in Retiring(b)
      BY <1>0, <1>1, <2>4, SeqFacts DEF Retiring
    <3>2. i \in Retiring(b)' \/ i \in interrupted'
      BY <1>1, <2>2, <3>1, RetirementGoesOn
    <3>3. task'[b].step = "mark" \/ task'[b].step = "idle" \/ task'[b] = task[b]
      <4>1. \A a \in Actors : Choosing(a) \/ Write(a) \/ Insert(a) \/ RevokeAtCA(a) \/ Mark(a)
              => task'[b] = task[b] \/ a = b
        BY <1>0, ChoosingStep, RecordingTask, RevokeTask, FinishTask DEF Mark
      <4>2. Signing \/ Dropping \/ (\E p \in Processes : OpenRead(p) \/ OpenWrite(p))
              => task'[b] = task[b] \/ task'[b].step = "idle"
        BY <1>0, <2>4, SigningStep, DroppingTask, OpeningStep
      <4>3. ~Choosing(b) /\ ~Write(b) /\ ~Insert(b) /\ ~RevokeAtCA(b)
        BY <1>0, <2>4, ChoosingStep DEF Write, Insert, RevokeAtCA
      <4>4. Mark(b) => task'[b].step = "idle"
        BY <1>0, FinishTask DEF Mark
      <4> QED
        BY <4>1, <4>2, <4>3, <4>4, Cases
    <3> QED
      BY <2>4, <3>2, <3>3 DEF Retiring
  <2>5. (\E b \in Actors : task[b].step = "mark" /\ task[b].old = i) \/ i \in interrupted
    BY <1>1, <2>1, <2>2 DEF IInv, RevocationIsShown
  <2> QED
    BY <2>3, <2>4, <2>5
<1> QED
  BY <1>2, <1>3

LEMMA NextRetired ==
    ASSUME IInv, Next
    PROVE  ReplacedIsRetired'
<1>0. TypeOK /\ Held /\ ReadBefore
  BY DEF IInv
<1> SUFFICES ASSUME NEW i \in DOMAIN certs', Recorded(certs'[i]),
                    certs'[i].renewedFrom # 0,
                    certs'[certs'[i].renewedFrom].status = "active"
             PROVE  \/ certs'[i].renewedFrom \in interrupted'
                    \/ \E a \in Actors : certs'[i].renewedFrom \in Retiring(a)'
  BY DEF ReplacedIsRetired, Recorded
<1> DEFINE old == certs'[i].renewedFrom
<1>1. i \in DOMAIN certs
  BY NewOnes
<1>2. /\ certs[i] \in Certificate /\ i # 0
      /\ certs[i].renewedFrom # 0 => /\ certs[i].renewedFrom \in DOMAIN certs
                                     /\ Recorded(certs[certs[i].renewedFrom])
  BY <1>0, <1>1, SeqFacts DEF IInv, Sound
<1>3. old \in DOMAIN certs /\ Recorded(certs[old])
  BY <1>1, <1>2, AllWritten DEF Written
<1>4. certs[old].status = "active"
  BY <1>3, AllAge DEF Ages
<1>5. CASE old = certs[i].renewedFrom /\ Recorded(certs[i])
  <2>1. old \in interrupted \/ \E a \in Actors : old \in Retiring(a)
    BY <1>1, <1>4, <1>5 DEF IInv, ReplacedIsRetired
  <2> QED
    BY <1>3, <2>1, InterruptedStays, RetirementGoesOn
<1>6. CASE ~(old = certs[i].renewedFrom /\ Recorded(certs[i]))
  <2>1. certs'[i] # certs[i]
    BY <1>6
  <2>2. ASSUME NEW p \in Processes, OpenWrite(p)
        PROVE  FALSE
    <3>1. certs'[i].status = certs[i].status \/ i \in DOMAIN rows[p]
      BY <1>0, <1>1, <2>2, RepairStep
    <3>2. Recorded(certs[i])
      BY <1>0, <3>1 DEF ReadBefore, Recorded
    <3>3. i \in DOMAIN rows[p] /\ old \in Earlier(p, i)
      BY <1>0, <1>1, <1>6, <2>2, <3>2, RepairStep
    <3>4. old \in DOMAIN rows[p] /\ i \in Later(p, old)
      <4>1. old \in DOMAIN rows[p] /\ rows[p][old].name = rows[p][i].name /\ old < i
        BY <3>3 DEF Earlier, ReadRows
      <4> QED
        BY <1>0, <1>1, <1>3, <3>3, <4>1, SeqFacts DEF Later, ReadRows
    <3>5. rows[p][old].status = "active"
      BY <1>0, <1>4, <3>4 DEF ReadBefore
    <3>6. certs'[old].status = "superseded"
      BY <1>0, <1>3, <2>2, <3>4, <3>5, RepairStep
    <3> QED
      BY <3>6
  <2>3. ASSUME NEW a \in Actors, Write(a) \/ Insert(a)
        PROVE  \E b \in Actors : old \in Retiring(b)'
    <3>1. i = task[a].new
      <4>1. CASE Insert(a)
        BY <1>0, <1>1, <2>1, <4>1, InsertStep
      <4>2. CASE Write(a) /\ i = task[a].old /\ i # task[a].new
        <5>1. certs'[i] = [certs[i] EXCEPT !.status = "superseded"] /\ Recorded(certs[i])
          BY <1>0, <1>2, <4>2, WriteStep
        <5> QED
          BY <1>2, <1>6, <5>1 DEF Certificate
      <4>3. CASE Write(a) /\ i # task[a].old
        BY <1>0, <1>1, <2>1, <4>3, WriteStep
      <4> QED
        BY <2>3, <4>1, <4>2, <4>3
    <3>2. old = task[a].old
      <4>1. certs'[i] = [certs[i] EXCEPT !.status = "active", !.renewedFrom = task[a].old]
        BY <1>0, <2>3, <3>1, WriteStep, InsertStep
      <4> QED
        BY <1>2, <4>1 DEF Certificate
    <3>3. CASE Write(a)
      <4>1. certs'[old] = [certs[old] EXCEPT !.status = "superseded"]
        BY <1>0, <3>2, <3>3, WriteStep
      <4>2. certs[old] \in Certificate
        BY <1>0, <1>3, SeqFacts
      <4>3. certs'[old].status = "superseded"
        BY <4>1, <4>2 DEF Certificate
      <4> QED
        BY <4>3
    <3>4. CASE Insert(a)
      <4>1. task'[a].step = "revoke" /\ task'[a].old = old /\ task'[a].new = i
        BY <1>0, <3>1, <3>2, <3>4, RecordingTask
      <4> QED
        BY <1>2, <4>1 DEF Retiring
    <3> QED
      BY <2>3, <3>3, <3>4
  <2>4. ASSUME NEW a \in Actors, RevokeAtCA(a) \/ Mark(a)
        PROVE  FALSE
    <3>1. i = task[a].old /\ Recorded(certs[i])
      BY <1>0, <1>1, <2>1, <2>4, RevokeStep, MarkStep
    <3>2. \/ certs'[i] = [certs[i] EXCEPT !.revokedAtCA = TRUE]
          \/ certs'[i] = [certs[i] EXCEPT !.status = certs'[i].status]
      BY <1>0, <2>4, <3>1, RevokeStep, MarkStep
    <3>3. certs'[i].renewedFrom = certs[i].renewedFrom
      BY <1>2, <3>2 DEF Certificate
    <3> QED
      BY <1>6, <3>1, <3>3
  <2>5. Dropping \/ (\E p \in Processes : OpenRead(p)) \/ (\E a \in Actors : Choosing(a))
          => UNCHANGED certs
    BY DEF Dropping, Restart, Fail, OpenRead, Choosing, SelectPrevious, SelectImported, Revoke
  <2>6. ~Signing
    BY <1>0, <1>1, <2>1, SigningStep
  <2> QED
    BY <2>1, <2>2, <2>3, <2>4, <2>5, <2>6, Cases
<1> QED
  BY <1>5, <1>6

-----------------------------------------------------------------------------
(* The theorems. *)

LEMMA InitInv == Init => IInv
<1> SUFFICES ASSUME Init PROVE IInv
  OBVIOUS
<1>1. TypeOK
  BY InventoryAssumption DEF Init, TypeOK, Task, IdleTask, Steps, Duplicated
<1>2. /\ \A a \in Actors : task[a].step = "idle"
      /\ \A p \in Processes : rows[p] = <<>>
      /\ DOMAIN rows = Processes
  BY DEF Init, IdleTask
<1>3. Held /\ ReadBefore
  BY <1>2 DEF Held, Holds, ReadBefore, Recording
<1>4. Sound /\ RevokedAtItsIssuer /\ RevocationIsShown /\ ReplacedIsRetired
  <2>1. certs \in Histories
    BY DEF Init
  <2>2. \A i \in DOMAIN certs :
          LET old == certs[i].renewedFrom
          IN  /\ certs[i].status = "revoked" => certs[i].revokedAtCA
              /\ certs[i].revokedAtCA => certs[i].status \notin {"issued", "active"}
              /\ old # 0 => old \in DOMAIN certs /\ certs[old].status \notin {"issued", "active"}
    BY <2>1, InventoryAssumption
  <2> QED
    BY <2>2 DEF Sound, RevokedAtItsIssuer, RevocationIsShown, ReplacedIsRetired, Recorded
<1>5. OneUnlessRaced
  <2> SUFFICES ASSUME NEW n \in Names \ raced,
                      NEW i \in ActivePublic(n), NEW j \in ActivePublic(n), i # j
               PROVE  FALSE
    BY DEF OneUnlessRaced
  <2>1. IsFiniteSet(ActivePublic(n))
    <3>1. ActivePublic(n) \in SUBSET (1..Len(certs))
      BY <1>1, SeqFacts DEF ActivePublic
    <3>2. IsFiniteSet(1..Len(certs))
      BY <1>1, SeqFacts, FS_Interval
    <3> QED
      BY <3>1, <3>2, FS_Subset
  <2>2. Cardinality({i, j}) = 2 /\ IsFiniteSet({i, j})
    <3>1. IsFiniteSet({i}) /\ Cardinality({i}) = 1
      BY FS_Singleton
    <3>2. {i, j} = {i} \cup {j} /\ j \notin {i}
      OBVIOUS
    <3>3. IsFiniteSet({i} \cup {j}) /\ Cardinality({i} \cup {j}) = Cardinality({i}) + 1
      BY <3>1, <3>2, FS_AddElement
    <3> QED
      BY <3>1, <3>2, <3>3
  <2>3. {i, j} \in SUBSET ActivePublic(n)
    OBVIOUS
  <2>4. /\ Cardinality({i, j}) <= Cardinality(ActivePublic(n))
        /\ Cardinality(ActivePublic(n)) \in Nat
    BY <2>1, <2>3, FS_Subset, FS_CardinalityType
  <2>5. n \in Duplicated
    BY <2>2, <2>4 DEF Duplicated
  <2> QED
    BY <2>5 DEF Init
<1> QED
  BY <1>1, <1>3, <1>4, <1>5 DEF IInv

LEMMA StutterInv ==
    ASSUME IInv, UNCHANGED vars
    PROVE  IInv'
<1>1. TypeOK' /\ Held'
  BY DEF IInv, vars, TypeOK, Held, Holds, Recorded
<1>2. Sound' /\ ReadBefore'
  BY DEF IInv, vars, Sound, ReadBefore, Recorded
<1>3. OneUnlessRaced' /\ RevokedAtItsIssuer'
  BY DEF IInv, vars, OneUnlessRaced, ActivePublic, Public, RevokedAtItsIssuer
<1>4. RevocationIsShown'
  BY DEF IInv, vars, RevocationIsShown
<1>5. ReplacedIsRetired'
  BY DEF IInv, vars, ReplacedIsRetired, Retiring, Recorded
<1> QED
  BY <1>1, <1>2, <1>3, <1>4, <1>5 DEF IInv

LEMMA NextInv ==
    ASSUME IInv, Next
    PROVE  IInv'
BY NextType, NextHeld, NextSound, NextRead, NextOne, NextRevokedAt, NextShown, NextRetired
   DEF IInv

LEMMA Invariance == Spec => []IInv
<1>1. IInv /\ [Next]_vars => IInv'
  BY NextInv, StutterInv
<1> QED
  BY <1>1, InitInv, PTL DEF Spec

-----------------------------------------------------------------------------
(* Identities: what an actor replaces is of the identity it records.       *)

(* A replacement is of the identity of what it replaces, unless it is a    *)
(* reissue, which is linked to what is retired for it.                     *)
Fits(a) ==
    LET new == task[a].new
        old == task[a].old
    IN  /\ task[a].step \in Recording => task[a].into = "superseded"
        /\ task[a].step = "select" => Public(certs[new])
        /\ task[a].step = "write" => certs[new].kind # "private"
        /\ task[a].step \in {"select", "write"} /\ old # 0 =>
             Identity(certs[new]) = Identity(certs[old])
        /\ task[a].step \in {"revoke", "mark"} /\ task[a].into = "superseded" =>
             /\ new \in DOMAIN certs /\ Recorded(certs[new])
             /\ certs[new].kind = "private" /\ certs[new].renewedFrom = old
Fitting == \A a \in Actors : Fits(a)

(* The repair has read public certificates, and a link that was missing    *)
(* then can only have become one to an earlier certificate.                *)
LinksRead ==
    \A p \in Processes : \A i \in DOMAIN rows[p] :
        /\ Public(certs[i])
        /\ rows[p][i].renewedFrom = 0 => certs[i].renewedFrom < i

(* The inductive invariant of the identities, beside IInv.                 *)
IdInv == Fitting /\ LinksRead /\ NewestIsActive

LEMMA SameIdentity ==
    ASSUME IInv, Next, NEW i \in DOMAIN certs
    PROVE  /\ i \in DOMAIN certs' /\ Identity(certs'[i]) = Identity(certs[i])
           /\ certs'[i].kind = certs[i].kind
           /\ Public(certs'[i]) <=> Public(certs[i])
           /\ Recorded(certs[i]) => Recorded(certs'[i])
BY AllAge DEF Ages, Identity, Public, Recorded

(* The link of a recorded certificate changes only in the repair.          *)
LEMMA LinkWritten ==
    ASSUME IInv, Next, NEW i \in DOMAIN certs, Recorded(certs[i])
    PROVE  \/ certs'[i].renewedFrom = certs[i].renewedFrom
           \/ \E p \in Processes : /\ i \in DOMAIN rows[p]
                                   /\ rows[p][i].renewedFrom = 0
                                   /\ certs'[i].renewedFrom \in Earlier(p, i)
<1>0. TypeOK /\ Held /\ ReadBefore /\ certs[i] \in Certificate /\ i # 0
  BY SeqFacts DEF IInv
<1>1. ASSUME NEW p \in Processes, OpenWrite(p), certs'[i].renewedFrom # certs[i].renewedFrom
      PROVE  /\ i \in DOMAIN rows[p]
             /\ rows[p][i].renewedFrom = 0
             /\ certs'[i].renewedFrom \in Earlier(p, i)
  <2>1. i \in DOMAIN rows[p] /\ certs'[i].renewedFrom \in Earlier(p, i)
    BY <1>0, <1>1, RepairStep
  <2>2. certs' = Repaired(p) /\ i \in ReadRows(p, certs[i].name)
    BY <1>0, <1>1, <2>1 DEF OpenWrite, ReadBefore, ReadRows
  <2>3. rows[p][i].renewedFrom = 0
    BY <1>0, <1>1, <2>1, <2>2 DEF Repaired, Certificate
  <2> QED
    BY <2>1, <2>3
<1>2. ASSUME NEW a \in Actors, Write(a)
      PROVE  certs'[i].renewedFrom = certs[i].renewedFrom
  <2> DEFINE old == task[a].old
  <2>1. i # task[a].new
    BY <1>0, <1>2, WriteStep
  <2>2. CASE i = old
    <3>1. certs'[i] = [certs[i] EXCEPT !.status = "superseded"]
      BY <1>0, <1>2, <2>2, WriteStep
    <3> QED
      BY <1>0, <3>1 DEF Certificate
  <2>3. CASE i # old
    BY <1>0, <1>2, <2>1, <2>3, WriteStep
  <2> QED
    BY <2>2, <2>3
<1>3. ASSUME NEW a \in Actors, Insert(a)
      PROVE  certs'[i].renewedFrom = certs[i].renewedFrom
  BY <1>0, <1>3, InsertStep
<1>4. ASSUME NEW a \in Actors, RevokeAtCA(a)
      PROVE  certs'[i].renewedFrom = certs[i].renewedFrom
  <2>1. certs'[i] = certs[i] \/ certs'[i] = [certs[i] EXCEPT !.revokedAtCA = TRUE]
    BY <1>0, <1>4, RevokeStep
  <2> QED
    BY <1>0, <2>1 DEF Certificate
<1>5. ASSUME NEW a \in Actors, Mark(a)
      PROVE  certs'[i].renewedFrom = certs[i].renewedFrom
  <2>1. certs'[i] = certs[i] \/ certs'[i] = [certs[i] EXCEPT !.status = certs'[i].status]
    BY <1>0, <1>5, MarkStep
  <2> QED
    BY <1>0, <2>1 DEF Certificate
<1>6. Dropping \/ (\E p \in Processes : OpenRead(p)) \/ (\E a \in Actors : Choosing(a))
        => UNCHANGED certs
  BY DEF Dropping, Restart, Fail, OpenRead, Choosing, SelectPrevious, SelectImported, Revoke
<1>7. Signing => certs'[i] = certs[i]
  BY <1>0, SigningStep
<1> QED
  BY <1>1, <1>2, <1>3, <1>4, <1>5, <1>6, <1>7, Cases

(* The repair leaves the links of private certificates as they are.        *)
LEMMA PrivateLink ==
    ASSUME IInv, LinksRead, Next, NEW i \in DOMAIN certs, Recorded(certs[i]),
           certs[i].kind = "private"
    PROVE  certs'[i].renewedFrom = certs[i].renewedFrom
<1>1. \A p \in Processes : i \notin DOMAIN rows[p]
  BY DEF LinksRead, Public
<1> QED
  BY <1>1, LinkWritten

LEMMA IdleFits ==
    ASSUME NEW a \in Actors, task'[a].step = "idle"
    PROVE  Fits(a)'
BY DEF Fits, Recording

LEMMA StillFits ==
    ASSUME IInv, LinksRead, Next, NEW b \in Actors, Fits(b), task'[b] = task[b]
    PROVE  Fits(b)'
<1> DEFINE new == task[b].new
           old == task[b].old
<1>1. /\ task[b].step \in {"select", "write"} => new \in DOMAIN certs
      /\ task[b].step # "idle" /\ old # 0 => old \in DOMAIN certs
  BY DEF IInv, Held, Holds, Recording
<1>2. /\ task[b].step \in Recording => task[b].into = "superseded"
      /\ task[b].step = "select" => Public(certs'[new])
      /\ task[b].step = "write" => certs'[new].kind # "private"
  BY <1>1, SameIdentity DEF Fits
<1>3. task[b].step \in {"select", "write"} /\ old # 0 =>
        Identity(certs'[new]) = Identity(certs'[old])
  BY <1>1, SameIdentity DEF Fits
<1>4. task[b].step \in {"revoke", "mark"} /\ task[b].into = "superseded" =>
        /\ new \in DOMAIN certs' /\ Recorded(certs'[new])
        /\ certs'[new].kind = "private" /\ certs'[new].renewedFrom = old
  BY SameIdentity, PrivateLink DEF Fits
<1> QED
  BY <1>2, <1>3, <1>4 DEF Fits, Recorded, Public, Identity, Recording

LEMMA SigningFits ==
    ASSUME IInv, Fitting, LinksRead, Next, Signing
    PROVE  Fitting'
<1> DEFINE new == Len(certs) + 1
<1>0. TypeOK /\ new \in Nat /\ \A i \in DOMAIN certs : i \in Nat /\ i < new
  BY SeqFacts DEF IInv
<1>1. \A b \in Actors : task'[b] = task[b] => Fits(b)'
  BY StillFits DEF Fitting
<1>2. ASSUME NEW a \in Actors, NEW kind \in Kinds, NEW name \in Names,
             NEW old \in {0} \cup DOMAIN certs, NEW step \in {"select", "insert"},
             Sign(kind, name),
             task' = [task EXCEPT ![a] = [step |-> step, new |-> new, old |-> old,
                                          into |-> "superseded"]],
             step = "select" => Public(Signed(kind, name)),
             step = "select" /\ old # 0 => Identity(certs[old]) = Identity(Signed(kind, name))
      PROVE  Fitting'
  <2>1. /\ \A b \in Actors \ {a} : task'[b] = task[b]
        /\ task'[a].step = step /\ task'[a].new = new /\ task'[a].old = old
    BY <1>0, <1>2 DEF TypeOK
  <2>2. /\ new \in DOMAIN certs' /\ certs'[new] = Signed(kind, name)
        /\ \A i \in DOMAIN certs : certs'[i] = certs[i]
    BY <1>0, <1>2, SignStep
  <2>3. step = "select" /\ old # 0 => Identity(certs'[new]) = Identity(certs'[old])
    BY <1>0, <1>2, <2>2
  <2>4. task'[a].into = "superseded"
    BY <1>0, <1>2 DEF TypeOK
  <2>5. Fits(a)'
    BY <1>2, <2>1, <2>2, <2>3, <2>4 DEF Fits, Identity, Public, Recording
  <2> QED
    BY <1>1, <2>1, <2>5 DEF Fitting
<1>3. ASSUME NEW a \in Actors, NEW n \in Names, Issue(a, n)
      PROVE  Fitting'
  <2>1. "private" \in Kinds
    BY DEF Kinds
  <2>2. /\ Sign("private", n)
        /\ task' = [task EXCEPT ![a] = [step |-> "insert", new |-> new, old |-> 0,
                                         into |-> "superseded"]]
    BY <1>3 DEF Issue
  <2> QED
    BY <1>2, <2>1, <2>2
<1>4. ASSUME NEW a \in Actors, NEW n \in Names, NEW i \in {0} \cup DOMAIN certs,
             OrderPublic(a, n, i)
      PROVE  Fitting'
  <2>1. "public" \in Kinds /\ Public(Signed("public", n))
    BY DEF Kinds, Public, Signed
  <2>2. /\ Sign("public", n)
        /\ task' = [task EXCEPT ![a] = [step |-> "select", new |-> new, old |-> i,
                                         into |-> "superseded"]]
        /\ i # 0 => i \in ActivePublic(n)
    BY <1>4 DEF OrderPublic
  <2>3. i # 0 => Identity(certs[i]) = Identity(Signed("public", n))
    BY <2>2 DEF ActivePublic, Identity, Public, Signed
  <2> QED
    BY <1>2, <2>1, <2>2, <2>3
<1>5. ASSUME NEW a \in Actors, NEW i \in DOMAIN certs, NEW n \in Names, Reissue(a, i, n)
      PROVE  Fitting'
  <2>1. "private" \in Kinds
    BY DEF Kinds
  <2>2. /\ Sign("private", n)
        /\ task' = [task EXCEPT ![a] = [step |-> "insert", new |-> new, old |-> i,
                                         into |-> "superseded"]]
    BY <1>5 DEF Reissue
  <2> QED
    BY <1>2, <2>1, <2>2
<1>6. ASSUME NEW n \in Names, AcmeIssue(n)
      PROVE  Fitting'
  BY <1>1, <1>6 DEF AcmeIssue, Fitting
<1> QED
  BY <1>3, <1>4, <1>5, <1>6 DEF Signing

LEMMA ChoosingFits ==
    ASSUME IInv, Fitting, Next, NEW a \in Actors, Choosing(a)
    PROVE  Fits(a)'
<1>0. TypeOK /\ Held /\ Fits(a) /\ UNCHANGED certs
  BY ChoosingStep DEF IInv, Fitting
<1>1. ASSUME SelectPrevious(a) PROVE Fits(a)'
  <2> DEFINE new == task[a].new
             old == task[a].old
             found == Newest(ActivePublic(certs[new].name))
  <2>1. /\ task[a].step = "select" /\ task[a].into = "superseded"
        /\ new \in DOMAIN certs /\ Public(certs[new]) /\ certs[new].kind # "private"
        /\ old # 0 => Identity(certs[new]) = Identity(certs[old])
    BY <1>0, <1>1 DEF SelectPrevious, Held, Holds, Fits, Recording, Public
  <2>2. CASE old = 0
    <3>1. task' = [task EXCEPT ![a] = [@ EXCEPT !.step = "write", !.old = found]]
      BY <1>1, <2>2 DEF SelectPrevious
    <3>2. /\ task'[a].step = "write" /\ task'[a].new = new /\ task'[a].old = found
          /\ task'[a].into = "superseded"
      BY <1>0, <2>1, <3>1 DEF TypeOK, Task
    <3>3. found # 0 => Identity(certs[new]) = Identity(certs[found])
      <4>1. found # 0 => found \in ActivePublic(certs[new].name)
        BY <1>0, ActivePublicFacts
      <4> QED
        BY <2>1, <4>1 DEF ActivePublic, Identity
    <3> QED
      BY <1>0, <2>1, <3>2, <3>3 DEF Fits, Identity, Public, Recording
  <2>3. CASE old # 0 /\ certs[old].status = "active"
    <3>1. task' = [task EXCEPT ![a] = [@ EXCEPT !.step = "write"]]
      BY <1>1, <2>3 DEF SelectPrevious
    <3>2. /\ task'[a].step = "write" /\ task'[a].new = new /\ task'[a].old = old
          /\ task'[a].into = "superseded"
      BY <1>0, <2>1, <3>1 DEF TypeOK, Task
    <3> QED
      BY <1>0, <2>1, <3>2 DEF Fits, Identity, Public, Recording
  <2>4. CASE old # 0 /\ certs[old].status # "active"
    <3>1. task' = [task EXCEPT ![a] = IdleTask]
      BY <1>1, <2>4 DEF SelectPrevious
    <3> QED
      BY <1>0, <3>1, FinishTask, IdleFits
  <2> QED
    BY <2>2, <2>3, <2>4
<1>2. ASSUME NEW i \in DOMAIN certs, SelectImported(a, i) PROVE Fits(a)'
  <2> DEFINE same == ActiveAcme(certs[i].name)
             found == Newest(same)
  <2>1. /\ certs[i].kind = "acme" /\ certs[i].kind # "private"
        /\ task' = [task EXCEPT ![a] = [step |-> "write", new |-> i, old |-> found,
                                        into |-> "superseded"]]
    BY <1>2 DEF SelectImported
  <2>2. /\ task'[a].step = "write" /\ task'[a].new = i /\ task'[a].old = found
        /\ task'[a].into = "superseded"
    BY <1>0, <2>1 DEF TypeOK
  <2>3. found # 0 => found \in same
    <3>1. same \in SUBSET (0..Len(certs))
      BY <1>0, SeqFacts DEF ActiveAcme
    <3> QED
      BY <1>0, <3>1, SeqFacts, MaxIn DEF Newest
  <2>4. found # 0 => Identity(certs[i]) = Identity(certs[found])
    BY <2>1, <2>3 DEF ActiveAcme, Identity, Public
  <2> HIDE DEF found
  <2> QED
    BY <1>0, <2>1, <2>2, <2>4 DEF Fits, Identity, Public, Recording
<1>3. ASSUME NEW i \in DOMAIN certs, Revoke(a, i) PROVE Fits(a)'
  <2>1. task'[a].step = "revoke" /\ task'[a].into = "revoked"
    BY <1>0, <1>3 DEF Revoke, TypeOK
  <2> QED
    BY <2>1 DEF Fits, Recording
<1> QED
  BY <1>1, <1>2, <1>3 DEF Choosing

LEMMA NextFits ==
    ASSUME IInv, Fitting, LinksRead, Next
    PROVE  Fitting'
<1>0. TypeOK /\ Held /\ ReadBefore
  BY DEF IInv
<1>1. ASSUME NEW b \in Actors, task'[b] = task[b] \/ task'[b].step = "idle"
      PROVE  Fits(b)'
  BY <1>1, StillFits, IdleFits DEF Fitting
<1>2. ASSUME NEW a \in Actors, \A b \in Actors \ {a} : task'[b] = task[b], Fits(a)'
      PROVE  Fitting'
  BY <1>1, <1>2 DEF Fitting
<1>3. CASE Signing
  BY <1>3, SigningFits
<1>4. CASE Dropping
  <2>1. \A b \in Actors : task'[b] = task[b] \/ task'[b].step = "idle"
    BY <1>0, <1>4, DroppingTask
  <2> QED
    BY <1>1, <2>1 DEF Fitting
<1>5. CASE \E p \in Processes : OpenRead(p) \/ OpenWrite(p)
  <2>1. UNCHANGED task
    BY <1>5 DEF OpenRead, OpenWrite
  <2> QED
    BY <1>1, <2>1 DEF Fitting
<1>6. ASSUME NEW a \in Actors, Choosing(a) PROVE Fitting'
  <2>1. \A b \in Actors \ {a} : task'[b] = task[b]
    BY <1>0, <1>6, ChoosingStep
  <2> QED
    BY <1>2, <1>6, <2>1, ChoosingFits
<1>7. ASSUME NEW a \in Actors, Write(a) \/ Mark(a) PROVE Fitting'
  <2>1. task' = [task EXCEPT ![a] = IdleTask]
    BY <1>7 DEF Write, Mark
  <2> QED
    BY <1>0, <1>1, <2>1, FinishTask DEF Fitting
<1>8. ASSUME NEW a \in Actors, Insert(a) PROVE Fitting'
  <2> DEFINE new == task[a].new
             old == task[a].old
  <2>1. CASE old = 0
    <3>1. task' = [task EXCEPT ![a] = IdleTask]
      BY <1>8, <2>1 DEF Insert
    <3> QED
      BY <1>0, <1>1, <3>1, FinishTask DEF Fitting
  <2>2. CASE old # 0
    <3>1. task[a].step = "insert" /\ task' = [task EXCEPT ![a] = [@ EXCEPT !.step = "revoke"]]
      BY <1>8, <2>2 DEF Insert
    <3>2. /\ \A b \in Actors \ {a} : task'[b] = task[b]
          /\ task'[a].step = "revoke" /\ task'[a].new = new /\ task'[a].old = old
      BY <1>0, <3>1 DEF TypeOK, Task
    <3>3. /\ new \in DOMAIN certs' /\ certs[new] \in Certificate
          /\ certs[new].kind = "private"
          /\ certs'[new] = [certs[new] EXCEPT !.status = "active", !.renewedFrom = old]
      BY <1>0, <1>8, InsertStep, SeqFacts
    <3>4. /\ Recorded(certs'[new]) /\ certs'[new].kind = "private"
          /\ certs'[new].renewedFrom = old
      BY <3>3 DEF Recorded, Certificate
    <3>5. Fits(a)'
      BY <3>2, <3>3, <3>4 DEF Fits, Identity, Public, Recorded, Recording
    <3> QED
      BY <1>2, <3>2, <3>5
  <2> QED
    BY <2>1, <2>2
<1>9. ASSUME NEW a \in Actors, RevokeAtCA(a) PROVE Fitting'
  <2> DEFINE new == task[a].new
             old == task[a].old
  <2>1. task[a].step = "revoke" /\ task' = [task EXCEPT ![a] = [@ EXCEPT !.step = "mark"]]
    BY <1>9 DEF RevokeAtCA
  <2>2. /\ \A b \in Actors \ {a} : task'[b] = task[b]
        /\ task'[a].step = "mark" /\ task'[a].new = new /\ task'[a].old = old
        /\ task'[a].into = task[a].into
    BY <1>0, <2>1 DEF TypeOK, Task
  <2>3. task[a].into = "superseded" =>
          /\ new \in DOMAIN certs /\ Recorded(certs[new])
          /\ certs[new].kind = "private" /\ certs[new].renewedFrom = old
    BY <2>1 DEF Fitting, Fits
  <2>4. task[a].into = "superseded" =>
          /\ new \in DOMAIN certs' /\ Recorded(certs'[new])
          /\ certs'[new].kind = "private" /\ certs'[new].renewedFrom = old
    BY <2>3, SameIdentity, PrivateLink
  <2>5. Fits(a)'
    BY <2>2, <2>4 DEF Fits, Identity, Public, Recorded, Recording
  <2> QED
    BY <1>2, <2>2, <2>5
<1> QED
  BY <1>3, <1>4, <1>5, <1>6, <1>7, <1>8, <1>9, Cases

LEMMA LinkStays ==
    ASSUME IInv, Next, NEW i \in DOMAIN certs, Recorded(certs[i])
    PROVE  certs'[i].renewedFrom = certs[i].renewedFrom \/ certs'[i].renewedFrom < i
BY LinkWritten DEF Earlier

(* A link to a later certificate is there to stay.                         *)
LEMMA LinkKept ==
    ASSUME IInv, LinksRead, Next, NEW j \in DOMAIN certs, Recorded(certs[j]),
           certs[j].renewedFrom > j
    PROVE  certs'[j].renewedFrom = certs[j].renewedFrom
<1>1. \A p \in Processes : j \in DOMAIN rows[p] => rows[p][j].renewedFrom # 0
  <2>1. certs[j].renewedFrom \in Nat /\ j \in Nat
    BY SeqFacts DEF IInv, Certificate
  <2> QED
    BY <2>1 DEF LinksRead
<1> QED
  BY <1>1, LinkWritten

LEMMA NextLinks ==
    ASSUME IInv, LinksRead, Next
    PROVE  LinksRead'
<1>0. /\ TypeOK /\ Held /\ ReadBefore /\ DOMAIN rows' = Processes
      /\ \A i \in DOMAIN certs : i \in Nat /\ i # 0 /\ certs[i] \in Certificate
  BY NextRead, SeqFacts DEF IInv, ReadBefore
<1>1. ASSUME NEW p \in Processes, NEW i \in DOMAIN rows'[p]
      PROVE  Public(certs'[i]) /\ (rows'[p][i].renewedFrom = 0 => certs'[i].renewedFrom < i)
  <2>1. \/ rows'[p] = rows[p]
        \/ rows'[p] = PublicRows /\ UNCHANGED certs
        \/ rows'[p] = <<>>
    <3>1. \A q \in Processes : OpenRead(q) \/ OpenWrite(q) =>
            \/ rows'[p] = rows[p]
            \/ rows'[p] = PublicRows /\ UNCHANGED certs
            \/ rows'[p] = <<>>
      BY <1>0, OpeningStep DEF OpenRead
    <3> QED
      BY <1>0, <3>1, Cases, SigningStep, ChoosingStep, RecordingTask, RevokeTask
         DEF Dropping, Restart, Fail, Mark
  <2>2. CASE rows'[p] = rows[p]
    <3>1. /\ i \in DOMAIN certs /\ Recorded(certs[i]) /\ Public(certs[i])
          /\ rows[p][i].renewedFrom = 0 => certs[i].renewedFrom < i
      BY <1>0, <1>1, <2>2 DEF ReadBefore, LinksRead
    <3>2. certs'[i].renewedFrom = certs[i].renewedFrom \/ certs'[i].renewedFrom < i
      BY <1>0, <3>1, LinkStays
    <3> QED
      BY <1>1, <2>2, <3>1, <3>2, SameIdentity
  <2>3. CASE rows'[p] = PublicRows /\ UNCHANGED certs
    <3>1. /\ i \in DOMAIN certs /\ PublicRows[i] = certs[i] /\ Public(certs[i])
      BY <1>0, <1>1, <2>3, PublicRowsFacts DEF PublicRows
    <3>2. i > 0
      BY <1>0, <3>1
    <3> QED
      BY <2>3, <3>1, <3>2 DEF Public
  <2>4. rows'[p] # <<>>
    BY <1>1
  <2> QED
    BY <2>1, <2>2, <2>3, <2>4
<1> QED
  BY <1>1 DEF LinksRead, Public

(* A certificate that is overtaken only by earlier ones is not retired by  *)
(* the repair.                                                             *)
LEMMA NewestKept ==
    ASSUME IInv, LinksRead, NEW p \in Processes, OpenWrite(p),
           NEW i \in DOMAIN certs,
           \A j \in DOMAIN certs :
              j > i => ~Recorded(certs[j]) \/ Identity(certs[j]) # Identity(certs[i])
    PROVE  certs'[i].status = certs[i].status
<1>0. TypeOK /\ ReadBefore
  BY DEF IInv
<1>1. i \in DOMAIN rows[p] => Later(p, i) = {}
  <2> SUFFICES ASSUME i \in DOMAIN rows[p], NEW j \in Later(p, i) PROVE FALSE
    OBVIOUS
  <2>1. j \in DOMAIN rows[p] /\ rows[p][j].name = rows[p][i].name /\ j > i
    BY DEF Later, ReadRows
  <2>2. /\ j \in DOMAIN certs /\ Recorded(certs[j]) /\ Public(certs[j]) /\ Public(certs[i])
        /\ certs[j].name = certs[i].name
    BY <1>0, <2>1 DEF ReadBefore, LinksRead
  <2>3. Identity(certs[j]) = Identity(certs[i])
    BY <2>2 DEF Identity
  <2> QED
    BY <2>1, <2>2, <2>3
<1> QED
  BY <1>0, <1>1, RepairStep

LEMMA NextNewest ==
    ASSUME IInv, IdInv, Next
    PROVE  NewestIsActive'
<1> DEFINE Newest0(i) ==
      \A j \in DOMAIN certs :
         j > i => ~Recorded(certs[j]) \/ Identity(certs[j]) # Identity(certs[i])
           Overtaken(i) ==
      \E j \in DOMAIN certs : j < i /\ Recorded(certs[j]) /\ certs[j].renewedFrom = i
<1>0. /\ TypeOK /\ Held /\ ReadBefore /\ LinksRead /\ Fitting
      /\ \A i \in DOMAIN certs : i \in Nat /\ i # 0 /\ certs[i] \in Certificate
  BY SeqFacts DEF IInv, IdInv
<1> SUFFICES ASSUME NEW i \in DOMAIN certs', Recorded(certs[i])',
                    \A j \in DOMAIN certs' : j > i =>
                       ~Recorded(certs[j])' \/ Identity(certs[j])' # Identity(certs[i])'
             PROVE  \/ certs'[i].status = "active" \/ certs'[i].revokedAtCA
                    \/ \E j \in DOMAIN certs' :
                         j < i /\ Recorded(certs[j])' /\ certs'[j].renewedFrom = i
  BY DEF NewestIsActive, NewestActive, Recorded, Identity, Public
<1>1. i \in DOMAIN certs
  BY NewOnes DEF Recorded
<1>2. CASE ~Recorded(certs[i])
  <2>1. Written(i)
    BY <1>1, AllWritten
  <2> QED
    BY <1>2, <2>1 DEF Written, Recorded
<1>3. CASE Recorded(certs[i])
  <2>1. Newest0(i)
    <3> SUFFICES ASSUME NEW j \in DOMAIN certs, j > i, Recorded(certs[j])
                 PROVE  Identity(certs[j]) # Identity(certs[i])
      OBVIOUS
    <3>1. j \in DOMAIN certs' /\ Recorded(certs'[j])
      BY SameIdentity
    <3>2. Identity(certs'[j]) = Identity(certs[j]) /\ Identity(certs'[i]) = Identity(certs[i])
      BY <1>1, SameIdentity
    <3> QED
      BY <3>1, <3>2 DEF Recorded, Identity, Public
  <2>2. certs[i].status = "active" \/ certs[i].revokedAtCA \/ Overtaken(i)
    BY <1>1, <1>3, <2>1 DEF IdInv, NewestIsActive, NewestActive
  <2>3. CASE certs[i].revokedAtCA
    BY <1>1, <2>3, AllAge DEF Ages
  <2>4. CASE Overtaken(i)
    <3>1. PICK j \in DOMAIN certs : j < i /\ Recorded(certs[j]) /\ certs[j].renewedFrom = i
      BY <2>4
    <3>2. j \in DOMAIN certs' /\ Recorded(certs'[j])
      BY <3>1, SameIdentity
    <3>3. certs'[j].renewedFrom = i
      <4>1. certs[j].renewedFrom > j
        BY <1>0, <1>1, <3>1
      <4> QED
        BY <1>0, <3>1, <4>1, LinkKept
    <3> QED
      BY <3>1, <3>2, <3>3 DEF Recorded
  <2>5. CASE certs[i].status = "active" /\ ~certs[i].revokedAtCA
    <3>1. CASE certs'[i] = certs[i]
      BY <2>5, <3>1
    <3>2. ASSUME NEW p \in Processes, OpenWrite(p)
          PROVE  certs'[i].status = "active"
      BY <1>0, <1>1, <2>1, <2>5, <3>2, NewestKept
    <3>3. ASSUME NEW a \in Actors, Write(a), certs'[i] # certs[i]
          PROVE  \E j \in DOMAIN certs' :
                   j < i /\ Recorded(certs[j])' /\ certs'[j].renewedFrom = i
      <4> DEFINE new == task[a].new
                 old == task[a].old
      <4>1. /\ new \in DOMAIN certs /\ ~Recorded(certs[new]) /\ DOMAIN certs' = DOMAIN certs
            /\ certs'[new] = [certs[new] EXCEPT !.status = "active", !.renewedFrom = old]
            /\ i \in {new, old}
        BY <1>0, <1>1, <3>3, WriteStep
      <4>2. i = old /\ new # i
        BY <1>3, <4>1
      <4>3. certs'[new].renewedFrom = i /\ certs'[new].status = "active"
        BY <1>0, <4>1, <4>2 DEF Certificate
      <4>4. task[a].step = "write"
        BY <3>3 DEF Write
      <4>5. Identity(certs[new]) = Identity(certs[i])
        BY <1>0, <1>1, <4>2, <4>4 DEF Fitting, Fits, Recording
      <4>6. Identity(certs'[new]) = Identity(certs'[i])
        BY <1>1, <4>1, <4>5, SameIdentity
      <4>7. ~(new > i)
        BY <4>1, <4>3, <4>6 DEF Recorded, Identity, Public
      <4>8. new < i
        BY <1>0, <1>1, <4>1, <4>2, <4>7
      <4> QED
        BY <4>1, <4>3, <4>8 DEF Recorded
    <3>4. ASSUME NEW a \in Actors, Insert(a)
          PROVE  certs'[i] = certs[i]
      BY <1>0, <1>1, <1>3, <3>4, InsertStep
    <3>5. ASSUME NEW a \in Actors, RevokeAtCA(a)
          PROVE  certs'[i] = certs[i] \/ certs'[i].revokedAtCA
      <4>1. certs'[i] = certs[i] \/ certs'[i] = [certs[i] EXCEPT !.revokedAtCA = TRUE]
        BY <1>0, <1>1, <3>5, RevokeStep
      <4> QED
        BY <1>0, <1>1, <4>1 DEF Certificate
    <3>6. ASSUME NEW a \in Actors, Mark(a)
          PROVE  certs'[i] = certs[i]
      BY <1>0, <1>1, <2>5, <3>6, MarkStep
    <3>7. Dropping \/ (\E p \in Processes : OpenRead(p)) \/ (\E a \in Actors : Choosing(a))
            => UNCHANGED certs
      BY DEF Dropping, Restart, Fail, OpenRead, Choosing, SelectPrevious, SelectImported, Revoke
    <3>8. Signing => certs'[i] = certs[i]
      BY <1>0, <1>1, SigningStep
    <3> QED
      BY <3>1, <3>2, <3>3, <3>4, <3>5, <3>6, <3>7, <3>8, Cases
  <2> QED
    BY <2>2, <2>3, <2>4, <2>5
<1> QED
  BY <1>2, <1>3

LEMMA IdInvariance == Spec => []IdInv
<1>1. ASSUME Init PROVE IdInv
  <2>1. /\ \A a \in Actors : task[a].step = "idle"
        /\ \A p \in Processes : rows[p] = <<>>
    BY <1>1 DEF Init, IdleTask
  <2>2. Fitting /\ LinksRead
    BY <2>1 DEF Fitting, Fits, LinksRead, Recording
  <2>3. NewestIsActive
    BY <1>1, InventoryAssumption DEF Init, NewestIsActive
  <2> QED
    BY <2>2, <2>3 DEF IdInv
<1>2. ASSUME IInv, IdInv, [Next]_vars PROVE IdInv'
  <2>1. CASE Next
    BY <1>2, <2>1, NextFits, NextLinks, NextNewest DEF IdInv
  <2>2. CASE UNCHANGED vars
    BY <1>2, <2>2 DEF IdInv, vars, Fitting, Fits, LinksRead, NewestIsActive, NewestActive,
                      Recorded, Identity, Public
  <2> QED
    BY <1>2, <2>1, <2>2
<1> QED
  BY <1>1, <1>2, Invariance, PTL DEF Spec

(* The certificate of an identity that was signed last stays active unless *)
(* it is revoked or its replacement is late, whatever is read before and   *)
(* written after (add_certificate, import_certificate, the repair).        *)
THEOREM NewestKeepsActive == Spec => []NewestIsActive
<1>1. IdInv => NewestIsActive
  BY DEF IdInv
<1> QED
  BY <1>1, IdInvariance, PTL

-----------------------------------------------------------------------------
(* The table goes through the lifecycle of certificates.                   *)

LEMMA TableFacts ==
    ASSUME IInv
    PROVE  /\ DOMAIN StatusOf = Table /\ DOMAIN IdentityOf = Table
           /\ Reissued \subseteq Table
           /\ \A i \in Table : /\ i \in DOMAIN certs /\ i # 0 /\ i \in Nat
                               /\ StatusOf[i] = certs[i].status
                               /\ IdentityOf[i] = Identity(certs[i])
                               /\ certs[i].status \in {"active", "superseded", "revoked"}
<1>1. \A i \in DOMAIN certs : certs[i] \in Certificate /\ i # 0 /\ i \in Nat
  BY SeqFacts DEF IInv
<1>2. Reissued \subseteq Table
  BY DEF IInv, Sound, Reissued, Table
<1> QED
  BY <1>1, <1>2 DEF StatusOf, IdentityOf, Table, Recorded, Certificate

(* What a recorded certificate says of a reissue, it says for good.        *)
LEMMA ReissuedBefore ==
    ASSUME IInv, LinksRead, Next, NEW i \in Table
    PROVE  /\ certs'[i].kind = certs[i].kind
           /\ certs[i].kind = "private" => certs'[i].renewedFrom = certs[i].renewedFrom
BY SameIdentity, PrivateLink DEF Table

(* A step that records nothing new and gives the recorded certificates the *)
(* statuses f.                                                             *)
LEMMA SameTable ==
    ASSUME IInv, LinksRead, Next, \A i \in DOMAIN certs' : Recorded(certs[i])' => i \in Table,
           NEW f, f = [i \in Table |-> certs'[i].status]
    PROVE  StatusOf' = f /\ IdentityOf' = IdentityOf /\ Reissued' = Reissued
<1>1. Table' = Table
  BY SameIdentity DEF Table, Recorded
<1>2. \A i \in Table : Identity(certs[i])' = Identity(certs[i])
  BY SameIdentity DEF Table, Identity, Public
<1>3. Reissued' = Reissued
  BY <1>1, ReissuedBefore DEF Reissued
<1> QED
  BY <1>1, <1>2, <1>3 DEF StatusOf, IdentityOf

LEMMA RecordedStays ==
    ASSUME IInv, Next, NEW i \in DOMAIN certs', Recorded(certs[i])', i \notin Table
    PROVE  \E a \in Actors : (Write(a) \/ Insert(a)) /\ i = task[a].new
<1>1. i \in DOMAIN certs /\ ~Recorded(certs[i])
  BY NewOnes DEF Recorded, Table
<1>2. Written(i)
  BY <1>1, AllWritten
<1> QED
  BY <1>1, <1>2 DEF Written, Recorded

LEMMA RecordingFollows ==
    ASSUME IInv, IdInv, Next, NEW a \in Actors, Write(a) \/ Insert(a)
    PROVE  \E i \in DOMAIN StatusOf' \ DOMAIN StatusOf :
              \/ \E old \in DOMAIN StatusOf \cup {0} : Lifecycle!Record(i, IdentityOf'[i], old)
              \/ \E old \in DOMAIN StatusOf : Lifecycle!Reissue(i, IdentityOf'[i], old)
<1> DEFINE new == task[a].new
           old == IF Write(a) THEN task[a].old ELSE 0
           who == Identity(certs[new])
<1>0. /\ TypeOK /\ Held /\ Fitting /\ LinksRead
      /\ \A i \in DOMAIN certs : i # 0 /\ certs[i] \in Certificate
  BY SeqFacts DEF IInv, IdInv
<1>1. /\ new \in DOMAIN certs /\ ~Recorded(certs[new]) /\ DOMAIN certs' = DOMAIN certs
      /\ certs'[new].status = "active"
      /\ old # 0 => old \in Table /\ certs'[old].status = "superseded"
      /\ \A i \in DOMAIN certs \ {new, old} : certs'[i] = certs[i]
  <2>1. CASE Write(a)
    <3>1. /\ new \in DOMAIN certs /\ ~Recorded(certs[new]) /\ DOMAIN certs' = DOMAIN certs
          /\ certs'[new] = [certs[new] EXCEPT !.status = "active", !.renewedFrom = task[a].old]
          /\ task[a].old # 0 =>
               /\ task[a].old \in DOMAIN certs /\ Recorded(certs[task[a].old])
               /\ certs'[task[a].old] = [certs[task[a].old] EXCEPT !.status = "superseded"]
          /\ \A i \in DOMAIN certs \ {new, task[a].old} : certs'[i] = certs[i]
      BY <1>0, <2>1, WriteStep
    <3>2. task[a].old # 0 => certs'[task[a].old].status = "superseded"
      BY <1>0, <3>1 DEF Certificate
    <3>3. certs'[new].status = "active"
      BY <1>0, <3>1 DEF Certificate
    <3> QED
      BY <2>1, <3>1, <3>2, <3>3 DEF Table
  <2>2. CASE Insert(a) /\ ~Write(a)
    <3>1. /\ new \in DOMAIN certs /\ ~Recorded(certs[new]) /\ DOMAIN certs' = DOMAIN certs
          /\ certs'[new] = [certs[new] EXCEPT !.status = "active", !.renewedFrom = task[a].old]
          /\ \A i \in DOMAIN certs \ {new} : certs'[i] = certs[i]
      BY <1>0, <2>2, InsertStep
    <3>2. certs'[new].status = "active"
      BY <1>0, <3>1 DEF Certificate
    <3> QED
      BY <2>2, <3>1, <3>2
  <2> QED
    BY <2>1, <2>2
<1>2. old # 0 => Identity(certs[old]) = who
  <2> SUFFICES ASSUME Write(a), task[a].old # 0
               PROVE  Identity(certs[task[a].old]) = who
    OBVIOUS
  <2>1. task[a].step = "write"
    BY DEF Write
  <2> QED
    BY <1>0, <2>1 DEF Fitting, Fits, Recording
<1>3. /\ Write(a) => certs'[new].kind # "private"
      /\ ~Write(a) => /\ old = 0 /\ certs'[new].kind = "private"
                      /\ certs'[new].renewedFrom = task[a].old
                      /\ task[a].old # 0 => task[a].old \in Table
  <2>1. Write(a) => certs'[new].kind # "private"
    BY <1>0, <1>1, SameIdentity DEF Write, Fitting, Fits
  <2>2. ASSUME ~Write(a)
        PROVE  /\ certs[new].kind = "private" /\ certs[new] \in Certificate
               /\ certs'[new] = [certs[new] EXCEPT !.status = "active", !.renewedFrom = task[a].old]
               /\ task[a].old # 0 => task[a].old \in Table
    BY <1>0, <2>2, InsertStep DEF Table
  <2> QED
    BY <2>1, <2>2 DEF Certificate
<1> HIDE DEF old
<1>4. Table' = Table \cup {new} /\ new \notin Table
  <2>1. \A i \in Table : i \in Table'
    BY SameIdentity DEF Table, Recorded
  <2>2. new \in Table'
    BY <1>1 DEF Table, Recorded
  <2>3. \A i \in Table' : i \in Table \/ i = new
    <3> SUFFICES ASSUME NEW i \in Table', i # new PROVE i \in Table
      OBVIOUS
    <3>1. i \in DOMAIN certs /\ Recorded(certs[i])'
      BY <1>1 DEF Table
    <3>2. i # old => certs'[i] = certs[i]
      BY <1>1, <3>1
    <3>3. i = old => old \in Table
      BY <1>0, <1>1, <3>1
    <3> QED
      BY <3>1, <3>2, <3>3 DEF Table, Recorded
  <2> QED
    BY <1>1, <2>1, <2>2, <2>3 DEF Table
<1>5. \A i \in DOMAIN certs : Identity(certs[i])' = Identity(certs[i])
  BY SameIdentity DEF Identity, Public
<1>6. /\ IdentityOf' = [i \in Table \cup {new} |-> IF i = new THEN who ELSE IdentityOf[i]]
      /\ IdentityOf'[new] = who
  <2>1. \A i \in Table \cup {new} :
          Identity(certs[i])' = IF i = new THEN who ELSE IdentityOf[i]
    BY <1>1, <1>5 DEF IdentityOf, Table
  <2>2. IdentityOf' = [i \in Table \cup {new} |-> Identity(certs[i])']
    BY <1>4 DEF IdentityOf
  <2> QED
    BY <2>1, <2>2
<1>7. StatusOf' = [i \in Table \cup {new} |-> IF i = new THEN "active"
                      ELSE IF i = old THEN "superseded" ELSE StatusOf[i]]
  <2>1. \A i \in Table \cup {new} :
          certs'[i].status = IF i = new THEN "active"
                             ELSE IF i = old THEN "superseded" ELSE StatusOf[i]
    BY <1>0, <1>1 DEF StatusOf, Table
  <2>2. StatusOf' = [i \in Table \cup {new} |-> certs'[i].status]
    BY <1>4 DEF StatusOf
  <2> QED
    BY <2>1, <2>2
<1>8. /\ DOMAIN StatusOf = Table /\ old \in Table \cup {0}
      /\ new \in DOMAIN StatusOf' \ DOMAIN StatusOf
  BY <1>1, <1>7 DEF StatusOf, Table
<1>9. old # 0 => IdentityOf[old] = who
  BY <1>1, <1>2 DEF IdentityOf
<1>10. Lifecycle!Add(new, IdentityOf'[new], old)
  BY <1>4, <1>6, <1>7, <1>8 DEF Lifecycle!Add
<1>11. /\ certs'[new].kind # "private" => Reissued' = Reissued
       /\ certs'[new].kind = "private" =>
             Reissued' = Reissued \cup ({certs'[new].renewedFrom} \ {0})
  <2>1. Reissued = {certs'[i].renewedFrom : i \in {j \in Table : certs'[j].kind = "private"}} \ {0}
    BY <1>0, ReissuedBefore DEF Reissued
  <2>2. Reissued' = {certs'[i].renewedFrom :
                        i \in {j \in Table \cup {new} : certs'[j].kind = "private"}} \ {0}
    BY <1>4 DEF Reissued
  <2> QED
    BY <2>1, <2>2
<1>12. CASE Write(a)
  <2>1. Reissued' = Reissued
    BY <1>3, <1>11, <1>12
  <2> QED
    BY <1>6, <1>8, <1>9, <1>10, <2>1 DEF Lifecycle!Record
<1>13. CASE ~Write(a) /\ task[a].old = 0
  <2>1. Reissued' = Reissued
    BY <1>3, <1>11, <1>13
  <2> QED
    BY <1>6, <1>8, <1>9, <1>10, <2>1 DEF Lifecycle!Record
<1>14. CASE ~Write(a) /\ task[a].old # 0
  <2>1. Reissued' = Reissued \cup {task[a].old} /\ old = 0 /\ task[a].old \in Table
    BY <1>3, <1>11, <1>14
  <2> QED
    BY <1>8, <1>10, <2>1 DEF Lifecycle!Reissue
<1> QED
  BY <1>12, <1>13, <1>14

LEMMA RetiringFollows ==
    ASSUME IInv, IdInv, Next, NEW a \in Actors, Mark(a)
    PROVE  (\E S \in SUBSET DOMAIN StatusOf : Lifecycle!Supersede(S))
           \/ \E i \in DOMAIN StatusOf : Lifecycle!Revoke(i)
<1> DEFINE old == task[a].old
           new == task[a].new
           into == task[a].into
<1>0. /\ TypeOK /\ Held /\ Fitting /\ LinksRead /\ task[a].step = "mark"
      /\ into \in {"superseded", "revoked"}
      /\ \A i \in DOMAIN certs : i # 0 /\ certs[i] \in Certificate
  BY SeqFacts DEF IInv, IdInv, Mark, TypeOK, Task
<1>1. /\ old \in DOMAIN certs /\ Recorded(certs[old]) /\ DOMAIN certs' = DOMAIN certs
      /\ \A i \in DOMAIN certs \ {old} : certs'[i] = certs[i]
  BY <1>0, MarkStep
<1>2. certs'[old].status = into
  BY <1>0, <1>1 DEF Mark, TypeOK, Certificate
<1>3. \A i \in DOMAIN certs' : Recorded(certs[i])' => i \in Table
  BY <1>1 DEF Table, Recorded
<1>4. /\ DOMAIN StatusOf = Table /\ old \in Table
      /\ IdentityOf' = IdentityOf /\ Reissued' = Reissued
      /\ StatusOf' = [i \in Table |-> IF i = old THEN into ELSE StatusOf[i]]
  <2>1. \A i \in Table : certs'[i].status = IF i = old THEN into ELSE StatusOf[i]
    BY <1>1, <1>2 DEF StatusOf, Table
  <2> DEFINE f == [i \in Table |-> certs'[i].status]
  <2>2. StatusOf' = f /\ IdentityOf' = IdentityOf /\ Reissued' = Reissued
    BY <1>0, <1>3, SameTable
  <2> QED
    BY <1>1, <2>1, <2>2 DEF StatusOf, Table
<1>5. CASE into = "revoked"
  <2>1. StatusOf' = [StatusOf EXCEPT ![old] = "revoked"]
    BY <1>4, <1>5 DEF StatusOf
  <2>2. Lifecycle!Revoke(old)
    BY <1>4, <2>1 DEF Lifecycle!Revoke
  <2> QED
    BY <1>4, <2>2
<1>6. CASE into = "superseded"
  <2>1. /\ new \in DOMAIN certs /\ Recorded(certs[new])
        /\ certs[new].kind = "private" /\ certs[new].renewedFrom = old
    BY <1>0, <1>6 DEF Fitting, Fits
  <2>2. old \in Reissued
    BY <1>0, <1>1, <2>1 DEF Table, Reissued
  <2>3. StatusOf' = [i \in Table |-> IF i \in {old} THEN "superseded" ELSE StatusOf[i]]
    BY <1>4, <1>6
  <2>4. Lifecycle!Supersede({old})
    BY <1>4, <2>2, <2>3 DEF Lifecycle!Supersede
  <2> QED
    BY <1>4, <2>4
<1> QED
  BY <1>0, <1>5, <1>6

LEMMA RepairFollows ==
    ASSUME IInv, IdInv, Next, NEW p \in Processes, OpenWrite(p)
    PROVE  \E S \in SUBSET DOMAIN StatusOf : Lifecycle!Supersede(S)
<1> DEFINE S == {i \in DOMAIN rows[p] : rows[p][i].status = "active" /\ Later(p, i) # {}}
<1>0. TypeOK /\ Held /\ ReadBefore /\ LinksRead
  BY DEF IInv, IdInv
<1>1. /\ DOMAIN certs' = DOMAIN certs
      /\ \A i \in DOMAIN certs :
           certs'[i].status = IF i \in S THEN "superseded" ELSE certs[i].status
  BY <1>0, RepairStep
<1>2. S \subseteq Table
  BY <1>0 DEF ReadBefore, Table
<1>3. ASSUME NEW i \in S
      PROVE  \E j \in Table : j > i /\ IdentityOf[j] = IdentityOf[i]
  <2>1. PICK j \in Later(p, i) : TRUE
    OBVIOUS
  <2>2. /\ j \in DOMAIN rows[p] /\ j > i /\ rows[p][j].name = rows[p][i].name
        /\ i \in DOMAIN rows[p]
    BY <2>1 DEF Later, ReadRows
  <2>3. /\ i \in Table /\ j \in Table
        /\ Identity(certs[j]) = Identity(certs[i])
    BY <1>0, <2>2 DEF ReadBefore, LinksRead, Table, Identity
  <2> QED
    BY <2>2, <2>3 DEF IdentityOf
<1>4. \A i \in DOMAIN certs' : Recorded(certs[i])' => i \in Table
  BY <1>1, <1>2 DEF Table, Recorded
<1> HIDE DEF S
<1>5. /\ IdentityOf' = IdentityOf /\ Reissued' = Reissued
      /\ StatusOf' = [i \in Table |-> IF i \in S THEN "superseded" ELSE StatusOf[i]]
  <2>1. \A i \in Table : certs'[i].status = IF i \in S THEN "superseded" ELSE StatusOf[i]
    BY <1>1 DEF StatusOf, Table
  <2> DEFINE f == [i \in Table |-> certs'[i].status]
  <2>2. StatusOf' = f /\ IdentityOf' = IdentityOf /\ Reissued' = Reissued
    BY <1>0, <1>4, SameTable
  <2> QED
    BY <2>1, <2>2
<1>6. DOMAIN StatusOf = Table
  BY DEF StatusOf
<1>7. Lifecycle!Supersede(S)
  BY <1>3, <1>5, <1>6 DEF Lifecycle!Supersede
<1> QED
  BY <1>2, <1>6, <1>7

LEMMA OthersStutter ==
    ASSUME IInv, LinksRead, Next,
           ~ \E p \in Processes : OpenWrite(p),
           ~ \E a \in Actors : Write(a) \/ Insert(a) \/ Mark(a)
    PROVE  UNCHANGED <<IdentityOf, StatusOf, Reissued>>
<1>0. TypeOK /\ Held
  BY DEF IInv
<1>1. \A i \in DOMAIN certs' : Recorded(certs[i])' => i \in Table
  BY RecordedStays
<1>2. \A i \in Table : certs'[i].status = certs[i].status
  <2>1. Dropping \/ (\E p \in Processes : OpenRead(p)) \/ (\E a \in Actors : Choosing(a))
          => UNCHANGED certs
    BY DEF Dropping, Restart, Fail, OpenRead, Choosing, SelectPrevious, SelectImported, Revoke
  <2>2. Signing => \A i \in Table : certs'[i] = certs[i]
    BY <1>0, SigningStep DEF Table
  <2>3. ASSUME NEW a \in Actors, RevokeAtCA(a), NEW i \in Table
        PROVE  certs'[i].status = certs[i].status
    <3>1. certs'[i] = certs[i] \/ certs'[i] = [certs[i] EXCEPT !.revokedAtCA = TRUE]
      BY <1>0, <2>3, RevokeStep DEF Table
    <3>2. certs[i] \in Certificate
      BY <1>0, SeqFacts DEF Table
    <3> QED
      BY <3>1, <3>2 DEF Certificate
  <2> QED
    BY <2>1, <2>2, <2>3, Cases
<1>3. [i \in Table |-> certs'[i].status] = StatusOf
  BY <1>2 DEF StatusOf
<1> QED
  BY <1>1, <1>3, SameTable

(* Every step of the table's writers is a step of the lifecycle or none.   *)
LEMMA StepFollows ==
    ASSUME IInv, IdInv, [Next]_vars
    PROVE  [Lifecycle!Next]_(Lifecycle!vars)
<1>1. CASE UNCHANGED vars
  BY <1>1 DEF vars, Lifecycle!vars, IdentityOf, StatusOf, Reissued, Table, Identity, Public, Recorded
<1>2. CASE Next
  <2>1. CASE \E p \in Processes : OpenWrite(p)
    BY <1>2, <2>1, RepairFollows DEF Lifecycle!Next
  <2>2. CASE \E a \in Actors : Write(a) \/ Insert(a)
    BY <1>2, <2>2, RecordingFollows DEF Lifecycle!Next
  <2>3. CASE \E a \in Actors : Mark(a)
    BY <1>2, <2>3, RetiringFollows DEF Lifecycle!Next
  <2>4. CASE ~ (\E p \in Processes : OpenWrite(p))
             /\ ~ \E a \in Actors : Write(a) \/ Insert(a) \/ Mark(a)
    BY <1>2, <2>4, OthersStutter DEF Lifecycle!vars, IdInv
  <2> QED
    BY <2>1, <2>2, <2>3, <2>4
<1> QED
  BY <1>1, <1>2

(* The inventory implements the lifecycle of certificates: what handlers,  *)
(* worker, importer and the repairs of three processes write, from stale   *)
(* reads or not, records a certificate once, never changes its identity,   *)
(* never makes it active again, and supersedes it only once another one of *)
(* the same identity, or the reissue an operator asked for, is recorded    *)
(* (database.py, the writers of certificates; service.py, reissue).        *)
THEOREM InventoryFollowsLifecycle == Spec => FollowsLifecycle
<1>1. ASSUME Init PROVE Lifecycle!Init
  <2>1. IInv
    BY <1>1, InitInv
  <2> QED
    BY <2>1, TableFacts DEF Lifecycle!Init
<1> QED
  BY <1>1, StepFollows, Invariance, IdInvariance, PTL
     DEF Spec, FollowsLifecycle, Lifecycle!Spec

(* Recorded certificates stay recorded, as what they were, and none that   *)
(* was superseded or revoked is ever active again, whatever the writers of *)
(* the table have read before (add_certificate, import_certificate,        *)
(* set_certificate_status, the history repair).                            *)
THEOREM InactiveForGood == Spec => Lifecycle!OneWay
<1> DEFINE Stays(i) == /\ i \in DOMAIN StatusOf' /\ IdentityOf'[i] = IdentityOf[i]
                       /\ StatusOf[i] # "active" => StatusOf'[i] # "active"
<1>1. ASSUME IInv, [Lifecycle!Next]_(Lifecycle!vars), NEW i \in DOMAIN StatusOf
      PROVE  Stays(i) \/ UNCHANGED Lifecycle!vars
  <2>1. DOMAIN IdentityOf = DOMAIN StatusOf
    BY <1>1, TableFacts
  <2>2. ASSUME NEW j \in DOMAIN StatusOf' \ DOMAIN StatusOf,
               NEW old \in DOMAIN StatusOf \cup {0},
               Lifecycle!Record(j, IdentityOf'[j], old)
        PROVE  Stays(i)
    BY <1>1, <2>2 DEF Lifecycle!Record, Lifecycle!Add
  <2>3. ASSUME NEW j \in DOMAIN StatusOf' \ DOMAIN StatusOf, NEW old \in DOMAIN StatusOf,
               Lifecycle!Reissue(j, IdentityOf'[j], old)
        PROVE  Stays(i)
    <3>1. i # 0
      BY <1>1, TableFacts
    <3> QED
      BY <1>1, <2>3, <3>1 DEF Lifecycle!Reissue, Lifecycle!Add
  <2>4. ASSUME NEW S \in SUBSET DOMAIN StatusOf, Lifecycle!Supersede(S)
        PROVE  Stays(i)
    BY <1>1, <2>4 DEF Lifecycle!Supersede
  <2>5. ASSUME NEW j \in DOMAIN StatusOf, Lifecycle!Revoke(j)
        PROVE  Stays(i)
    BY <1>1, <2>5 DEF Lifecycle!Revoke
  <2> QED
    BY <1>1, <2>2, <2>3, <2>4, <2>5 DEF Lifecycle!Next
<1>2. IInv /\ [Lifecycle!Next]_(Lifecycle!vars)
        => [\A i \in DOMAIN StatusOf : Stays(i)]_(Lifecycle!vars)
  BY <1>1
<1> QED
  BY <1>2, Invariance, InventoryFollowsLifecycle, PTL
     DEF FollowsLifecycle, Lifecycle!Spec, Lifecycle!OneWay

(* Every reachable state of the inventory is well typed: among others, no  *)
(* certificate has a status that no reader knows.                          *)
THEOREM TypeCorrect == Spec => []TypeOK
<1>1. IInv => TypeOK
  BY DEF IInv
<1> QED
  BY <1>1, Invariance, PTL

(* However many threads and processes revoke, reissue, record and repair,  *)
(* none shows as revoked what its issuer has not revoked (revoke, reissue).*)
THEOREM RevokedForSure == Spec => []RevokedAtItsIssuer
<1>1. IInv => RevokedAtItsIssuer
  BY DEF IInv
<1> QED
  BY <1>1, Invariance, PTL

(* A revocation at the issuer is shown, about to be shown, or was cut off  *)
(* between the two steps (revoke, reissue).                                *)
THEOREM RevocationShown == Spec => []RevocationIsShown
<1>1. IInv => RevocationIsShown
  BY DEF IInv
<1> QED
  BY <1>1, Invariance, PTL

(* What was replaced is not active, is being retired, or its retirement was*)
(* cut off (add_certificate, import_certificate, reissue, the repair).     *)
THEOREM ReplacedRetired == Spec => []ReplacedIsRetired
<1>1. IInv => ReplacedIsRetired
  BY DEF IInv
<1> QED
  BY <1>1, Invariance, PTL

(* Two public certificates of a name are active only after a selection that*)
(* went stale (add_certificate), in a table of any size.                   *)
THEOREM DuplicatesAreRaced == Spec => []TwoActiveOnlyIfRaced
<1>1. IInv => TwoActiveOnlyIfRaced
  <2> SUFFICES ASSUME IInv, NEW n \in Names, n \notin raced,
                      Cardinality(ActivePublic(n)) > 1
               PROVE  FALSE
    BY DEF TwoActiveOnlyIfRaced, Duplicated
  <2>1. \A i, j \in ActivePublic(n) : i = j
    BY DEF IInv, OneUnlessRaced
  <2>2. ActivePublic(n) = {} \/ \E i : ActivePublic(n) = {i}
    BY <2>1
  <2>3. Cardinality(ActivePublic(n)) \in {0, 1}
    BY <2>2, FS_EmptySet, FS_Singleton
  <2> QED
    BY <2>3
<1> QED
  BY <1>1, Invariance, PTL

(* A revocation that is shown is hidden again only by a repair or a        *)
(* recording that decided before it (the unconditional UPDATEs).           *)
THEOREM RevocationStays == Spec => RevokedUnlessStale
<1> DEFINE Hidden(i) == certs[i].status = "revoked" /\ certs'[i].status # "revoked"
           Stale(i) == \/ \E p \in Processes : i \in DOMAIN rows[p] /\ rows[p][i].status = "active"
                       \/ \E a \in Actors : task[a].step = "write" /\ task[a].old = i
<1>1. ASSUME IInv, Next, NEW i \in DOMAIN certs, Hidden(i)
      PROVE  Stale(i)
  <2>0. TypeOK /\ Held /\ ReadBefore /\ Recorded(certs[i]) /\ certs'[i] # certs[i]
    BY <1>1 DEF IInv, Recorded
  <2>1. ASSUME NEW p \in Processes, OpenWrite(p)
        PROVE  Stale(i)
    BY <1>1, <2>0, <2>1, RepairStep
  <2>2. ASSUME NEW a \in Actors, Write(a)
        PROVE  Stale(i)
    BY <2>0, <2>2, WriteStep DEF Write
  <2>3. ASSUME NEW a \in Actors, Insert(a)
        PROVE  FALSE
    BY <2>0, <2>3, InsertStep
  <2>4. ASSUME NEW a \in Actors, RevokeAtCA(a)
        PROVE  FALSE
    <3>1. i = task[a].old /\ ~certs[i].revokedAtCA
      BY <2>0, <2>4, RevokeStep
    <3> QED
      BY <1>1, <3>1 DEF IInv, RevokedAtItsIssuer
  <2>5. ASSUME NEW a \in Actors, Mark(a)
        PROVE  FALSE
    <3>1. i = task[a].old /\ certs[i].status # "revoked"
      BY <2>0, <2>5, MarkStep
    <3> QED
      BY <1>1, <3>1
  <2>6. Dropping \/ (\E p \in Processes : OpenRead(p)) \/ (\E a \in Actors : Choosing(a))
          => UNCHANGED certs
    BY DEF Dropping, Restart, Fail, OpenRead, Choosing, SelectPrevious, SelectImported, Revoke
  <2>7. ~Signing
    BY <2>0, SigningStep
  <2> HIDE DEF Hidden, Stale
  <2> QED
    BY <1>1, <2>0, <2>1, <2>2, <2>3, <2>4, <2>5, <2>6, <2>7, Cases
<1>2. IInv /\ [Next]_vars => [\A i \in DOMAIN certs : Hidden(i) => Stale(i)]_vars
  BY <1>1
<1> QED
  BY <1>2, Invariance, PTL DEF Spec, RevokedUnlessStale

=============================================================================
