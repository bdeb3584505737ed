--------------------------- MODULE EnforcementProofs ---------------------------
(***************************************************************************)
(* Proofs about Enforcement, for any sets of principals, targets and       *)
(* removers and any bounds: its types; that a deny that is in force is     *)
(* always on record as long as removals of one deny do not overlap; that   *)
(* it implements DenyRecord; that stamps settle on attached policies and   *)
(* breaches settle stamped; and that pausing imposes nothing.              *)
(***************************************************************************)
EXTENDS Enforcement, SequenceTheorems, TLAPS

(* A write to a row is one more image of its own principal's shard.        *)
LEMMA PublishTyped ==
  ASSUME TypeOK, NEW r \in Rows, NEW s \in Nat, NEW st, Publish(r, s, st)
  PROVE  /\ DOMAIN stream' = Principals
         /\ \A p \in Principals : stream'[p] \in Seq(ImagesOf(p))
<1> DEFINE im == [row |-> r, spend |-> s, stamped |-> st # NoPolicy]
<1>1. r.principal \in Principals
  BY DEF Rows
<1>2. im \in ImagesOf(r.principal)
  BY DEF ImagesOf, Images
<1>3. Append(stream[r.principal], im) \in Seq(ImagesOf(r.principal))
  <2> HIDE DEF im
  <2> QED BY <1>1, <1>2 DEF TypeOK
<1>4. stream' = [stream EXCEPT ![r.principal] = Append(@, im)]
  BY DEF Publish
<1> QED
  <2> HIDE DEF im
  <2> QED BY <1>1, <1>3, <1>4 DEF TypeOK

(* The record the consumer is at is a row of its own principal.            *)
LEMMA RecordTyped ==
  ASSUME TypeOK, NEW p \in Principals, Pending(p)
  PROVE  /\ Record(p) \in Images
         /\ Record(p).row \in Rows
         /\ Record(p).row.principal = p
<1>1. stream[p] \in Seq(ImagesOf(p)) /\ enf[p].cursor \in Nat
  BY DEF TypeOK, ConsumerStates
<1>2. enf[p].cursor + 1 \in 1 .. Len(stream[p])
  BY <1>1 DEF Pending
<1>3. Record(p) \in ImagesOf(p)
  BY <1>1, <1>2, ElementOfSeq DEF Record
<1> QED BY <1>3 DEF ImagesOf, Images

(* Dropping the front of a shard leaves a shard.                           *)
LEMMA RestTyped ==
  ASSUME TypeOK, NEW p \in Principals, NEW m \in Nat \ {0},
         stream' = [stream EXCEPT ![p] = SubSeq(@, m, Len(@))]
  PROVE  /\ DOMAIN stream' = Principals
         /\ \A q \in Principals : stream'[q] \in Seq(ImagesOf(q))
<1>1. stream[p] \in Seq(ImagesOf(p)) /\ Len(stream[p]) \in Nat
  BY DEF TypeOK
<1>2. \A i \in m .. Len(stream[p]) : stream[p][i] \in ImagesOf(p)
  BY <1>1, ElementOfSeq
<1>3. SubSeq(stream[p], m, Len(stream[p])) \in Seq(ImagesOf(p))
  BY <1>1, <1>2, SubSeqProperties
<1> QED BY <1>3 DEF TypeOK

(* A deciding budget names one of the deny policies of the row.            *)
LEMMA DenyPolicyTyped ==
  ASSUME NEW im, im.row \in Rows, NEW rx, NEW rw, NEW t \in Deciding(im, rx, rw)
  PROVE  /\ DenyPolicy(im.row, t) \in Policies
         /\ DenyPolicy(im.row, t).principal = im.row.principal
<1>1. /\ im.row.principal \in Principals
      /\ im.row.target \in Targets
      /\ im.row.period \in Periods
  BY DEF Rows
<1>2. t \in BudgetTargets
  BY <1>1, TargetsAssumption DEF Deciding, BudgetTargets
<1> QED BY <1>1, <1>2 DEF DenyPolicy, Policies

(* Taking an operation from its bound.                                     *)
LEMMA UseTyped ==
  ASSUME TypeOK, NEW f \in {"admin", "manual", "faults", "crashes"}, Use(f)
  PROVE  used' \in Counts
BY DEF Use, TypeOK, Counts

(* The ways a consumer's state changes.                                    *)
LEMMA GotoTyped ==
  ASSUME TypeOK, OwnWork, NEW p \in Principals, enf[p].pc # "idle",
         NEW pc \in EnfPc, Goto(p, pc)
  PROVE  enf' \in [Principals -> ConsumerStates] /\ OwnWork'
<1>1. enf \in [Principals -> ConsumerStates]
  BY DEF TypeOK
<1>2. enf' = [enf EXCEPT ![p] = [enf[p] EXCEPT !.pc = pc]]
  BY <1>1 DEF Goto
<1>3. [enf[p] EXCEPT !.pc = pc] \in ConsumerStates
  BY <1>1 DEF ConsumerStates
<1>4. enf' \in [Principals -> ConsumerStates]
  BY <1>1, <1>2, <1>3
<1>5. OwnWork'
  BY <1>1, <1>2 DEF OwnWork, ConsumerStates
<1> QED BY <1>4, <1>5

(* A consumer that starts over with its lease has a typed state. *)
LEMMA RestartTyped ==
  ASSUME TypeOK, OwnWork, NEW p \in Principals,
         NEW c \in Nat, NEW k \in Nat, NEW o \in BOOLEAN,
         enf' = [enf EXCEPT ![p] = Consumer(c, k, o)]
  PROVE  enf' \in [Principals -> ConsumerStates] /\ OwnWork'
<1>1. Consumer(c, k, o) \in ConsumerStates /\ Consumer(c, k, o).pc = "idle"
  BY DEF Consumer, ConsumerStates, EnfPc
<1>2. enf \in [Principals -> ConsumerStates]
  BY DEF TypeOK
<1>3. enf' \in [Principals -> ConsumerStates]
  BY <1>1, <1>2
<1>4. OwnWork'
  BY <1>1, <1>2 DEF OwnWork
<1> QED BY <1>3, <1>4

(* A record that is done with leaves a typed consumer. *)
LEMMA FinishTyped ==
  ASSUME TypeOK, OwnWork, NEW p \in Principals, Finish(p)
  PROVE  enf' \in [Principals -> ConsumerStates] /\ OwnWork'
<1>1. enf[p].cursor + 1 \in Nat /\ enf[p].retries \in Nat /\ enf[p].off \in BOOLEAN
  BY DEF TypeOK, ConsumerStates
<1> QED BY <1>1, RestartTyped DEF Finish, Advanced

(* The ways a remover's state changes.                                     *)
LEMMA RemGotoTyped ==
  ASSUME TypeOK, Holding, NEW x \in Removers, rem[x].pc \notin {"idle", "next"},
         NEW pc \in {"detach", "delete", "clear"}, RemGoto(x, pc)
  PROVE  rem' \in [Removers -> RemoverStates] /\ Holding'
<1>1. rem \in [Removers -> RemoverStates]
  BY DEF TypeOK
<1>2. rem' = [rem EXCEPT ![x] = [rem[x] EXCEPT !.pc = pc]]
  BY <1>1 DEF RemGoto
<1>3. [rem[x] EXCEPT !.pc = pc] \in RemoverStates
  BY <1>1 DEF RemoverStates, RemPc
<1>4. rem' \in [Removers -> RemoverStates]
  BY <1>1, <1>2, <1>3
<1>5. Holding'
  BY <1>1, <1>2 DEF Holding, RemoverStates
<1> QED BY <1>4, <1>5

(* A remover that stops holds nothing. *)
LEMMA StoppedTyped ==
  ASSUME TypeOK, Holding, NEW x \in Removers, rem' = [rem EXCEPT ![x] = Resting]
  PROVE  rem' \in [Removers -> RemoverStates] /\ Holding'
<1>1. Resting \in RemoverStates
  BY DEF Resting, RemoverStates, RemPc
<1>2. rem \in [Removers -> RemoverStates]
  BY DEF TypeOK
<1>3. rem' \in [Removers -> RemoverStates]
  BY <1>1, <1>2
<1>4. Holding'
  BY <1>2 DEF Resting, Holding
<1> QED BY <1>3, <1>4

(* A remover that gives up one row holds only what is left to do. *)
LEMMA GiveUpTyped ==
  ASSUME TypeOK, Holding, NEW x \in Removers, GiveUp(x)
  PROVE  rem' \in [Removers -> RemoverStates] /\ Holding'
<1> DEFINE next == [rem[x] EXCEPT !.pc = "next", !.row = NoRow, !.pol = NoPolicy]
<1>1. rem \in [Removers -> RemoverStates]
  BY DEF TypeOK
<1>2. CASE rem' = [rem EXCEPT ![x] = Resting]
  BY <1>2, StoppedTyped
<1>3. CASE rem' = [rem EXCEPT ![x] = next]
  <2>1. /\ next \in RemoverStates
        /\ next.pc = "next" /\ next.row = NoRow /\ next.pol = NoPolicy
    BY <1>1 DEF RemoverStates, RemPc
  <2> HIDE DEF next
  <2>2. rem' \in [Removers -> RemoverStates]
    BY <1>1, <1>3, <2>1
  <2>3. Holding'
    BY <1>1, <1>3, <2>1 DEF Holding
  <2> QED BY <2>2, <2>3
<1>4. rem' = [rem EXCEPT ![x] = Resting] \/ rem' = [rem EXCEPT ![x] = next]
  BY DEF GiveUp
<1> QED BY <1>2, <1>3, <1>4

(* The rollover starts with the stamped rows it read. *)
LEMMA SnapshotTyped ==
  ASSUME TypeOK, Holding, NEW x \in Removers, NEW d, RolloverSnapshot(x, d)
  PROVE  rem' \in [Removers -> RemoverStates] /\ Holding'
<1> DEFINE start == [Resting EXCEPT !.pc = "next", !.mode = "rollover", !.todo = Stamped(d)]
<1>1. Stamped(d) \in SUBSET (Rows \X Policies)
  BY DEF Stamped, TypeOK
<1>2. /\ start \in RemoverStates
      /\ start.pc = "next" /\ start.row = NoRow /\ start.pol = NoPolicy
  BY <1>1 DEF Resting, RemoverStates, RemPc
<1>3. rem' = [rem EXCEPT ![x] = start]
  BY DEF RolloverSnapshot
<1> HIDE DEF start
<1> QED BY <1>2, <1>3 DEF TypeOK, Holding

(* The stamping of a row.                                                  *)
LEMMA StampTyped ==
  ASSUME TypeOK, NEW p \in Principals, enf[p].row \in Rows, enf[p].pol \in Policies,
         StampRow(p)
  PROVE  /\ spend' \in [Rows -> Nat]
         /\ stamp' \in [Rows -> Policies \union {NoPolicy}]
         /\ DOMAIN stream' = Principals
         /\ \A q \in Principals : stream'[q] \in Seq(ImagesOf(q))
         /\ alarmed' \subseteq Rows
<1>1. spend[enf[p].row] \in Nat
  BY DEF TypeOK
<1>2. DOMAIN stream' = Principals /\ \A q \in Principals : stream'[q] \in Seq(ImagesOf(q))
  BY <1>1, PublishTyped DEF StampRow
<1> QED BY <1>2 DEF StampRow, TypeOK

(* Types, for any interleaving, overlapping removals included.             *)
LEMMA TypeInvStep ==
  ASSUME TypeInv, [Next]_vars
  PROVE  TypeInv'
<1>0. TypeOK /\ OwnWork /\ Holding
  BY DEF TypeInv
<1>1. CASE Tick
  <2> QED BY <1>1, <1>0, BoundsAssumption DEF Tick, Periods, TypeInv, TypeOK, OwnWork, Holding, table, iam
<1>2. CASE AdminPause
  <2>1. used' \in Counts
    BY <1>2, <1>0, UseTyped DEF AdminPause
  <2>2. enf' \in [Principals -> ConsumerStates]
    <3>1. ASSUME NEW p \in Principals PROVE [enf[p] EXCEPT !.off = ~paused] \in ConsumerStates
      BY <1>0 DEF TypeOK, ConsumerStates
    <3> QED BY <1>2, <1>0, <3>1 DEF AdminPause, TypeOK
  <2>3. OwnWork'
    BY <1>2, <1>0 DEF AdminPause, AtRest, TypeOK, OwnWork, ConsumerStates
  <2> QED BY <1>2, <1>0, <2>1, <2>2, <2>3 DEF AdminPause, TypeInv, TypeOK, Holding, calendar, table, iam
<1>3. ASSUME NEW r \in Rows, MeterWrite(r) PROVE TypeInv'
  <2>1. spend[r] + 1 \in Nat
    BY <1>0 DEF TypeOK
  <2>2. DOMAIN stream' = Principals /\ \A q \in Principals : stream'[q] \in Seq(ImagesOf(q))
    BY <1>3, <1>0, <2>1, PublishTyped DEF MeterWrite
  <2> QED BY <1>3, <1>0, <2>1, <2>2 DEF MeterWrite, TypeInv, TypeOK, OwnWork, Holding, calendar, table, iam
<1>4. ASSUME NEW k \in BudgetKeys, NEW b \in BudgetValues \union {NoBudget}, AdminBudget(k, b) PROVE TypeInv'
  <2>1. used' \in Counts
    BY <1>4, <1>0, UseTyped DEF AdminBudget
  <2>2. b \in Budgets \union {NoBudget}
    BY <1>4, TargetsAssumption
  <2> QED BY <1>4, <1>0, <2>1, <2>2 DEF AdminBudget, TypeInv, TypeOK, OwnWork, Holding, calendar, table, iam
<1>5. ASSUME NEW p \in Principals, EnforceSkip(p) PROVE TypeInv'
  <2>1. enf' \in [Principals -> ConsumerStates] /\ OwnWork'
    BY <1>5, <1>0, FinishTyped DEF EnforceSkip
  <2> QED BY <1>5, <1>0, <2>1 DEF EnforceSkip, TypeInv, TypeOK, Holding, calendar, table, iam
<1>6. ASSUME NEW p \in Principals, EnforceDecide(p) PROVE TypeInv'
  <2>1. Pending(p)
    BY <1>6 DEF EnforceDecide
  <2>2. /\ Record(p).row \in Rows
        /\ Record(p).row.principal = p
    BY <1>0, <2>1, RecordTyped
  <2>3. PICK rx \in BOOLEAN, rw \in BOOLEAN : \E t \in Deciding(Record(p), rx, rw) :
          enf' = [enf EXCEPT ![p].pc = "create", ![p].row = Record(p).row,
                             ![p].pol = DenyPolicy(Record(p).row, t)]
    BY <1>6 DEF EnforceDecide
  <2>4. PICK t \in Deciding(Record(p), rx, rw) :
          enf' = [enf EXCEPT ![p].pc = "create", ![p].row = Record(p).row,
                             ![p].pol = DenyPolicy(Record(p).row, t)]
    BY <2>3
  <2>5. /\ DenyPolicy(Record(p).row, t) \in Policies
        /\ DenyPolicy(Record(p).row, t).principal = p
    BY <2>2, DenyPolicyTyped
  <2>6. enf' \in [Principals -> ConsumerStates] /\ OwnWork'
    <3> DEFINE pol == DenyPolicy(Record(p).row, t)
               next == [enf[p] EXCEPT !.pc = "create", !.row = Record(p).row, !.pol = pol]
    <3>1. enf \in [Principals -> ConsumerStates]
      BY <1>0 DEF TypeOK
    <3>2. enf' = [enf EXCEPT ![p] = next]
      BY <2>4, <3>1
    <3>3. pol \in Policies /\ pol.principal = p
      BY <2>5
    <3> HIDE DEF pol
    <3>4. /\ next \in ConsumerStates
          /\ next.row = Record(p).row /\ next.pol = pol
      BY ZenonT(60), <2>2, <3>1, <3>3 DEF ConsumerStates, EnfPc
    <3> HIDE DEF next
    <3>5. enf' \in [Principals -> ConsumerStates]
      BY <3>1, <3>2, <3>4
    <3>6. OwnWork'
      BY <1>0, <2>2, <3>1, <3>2, <3>3, <3>4 DEF OwnWork
    <3> QED BY <3>5, <3>6
  <2> QED BY <1>6, <1>0, <2>6 DEF EnforceDecide, TypeInv, TypeOK, Holding, calendar, table, iam
<1>7. ASSUME NEW p \in Principals, EnforceCreate(p) PROVE TypeInv'
  <2>1. enf[p].pc # "idle" /\ enf[p].row \in Rows /\ enf[p].pol \in Policies
    BY <1>7, <1>0 DEF EnforceCreate, OwnWork
  <2>2. enf' \in [Principals -> ConsumerStates] /\ OwnWork'
    BY <1>7, <1>0, <2>1, GotoTyped DEF EnforceCreate, EnfPc
  <2> QED BY <1>7, <1>0, <2>1, <2>2 DEF EnforceCreate, TypeInv, TypeOK, Holding, calendar, table, iam
<1>8. ASSUME NEW p \in Principals, EnforceGet(p) PROVE TypeInv'
  <2>1. enf[p].pc # "idle" /\ enf[p].row \in Rows /\ enf[p].pol \in Policies
    BY <1>8, <1>0 DEF EnforceGet, OwnWork
  <2>2. enf' \in [Principals -> ConsumerStates] /\ OwnWork'
    BY <1>8, <1>0, <2>1, GotoTyped, FinishTyped DEF EnforceGet, EnfPc
  <2> QED BY <1>8, <1>0, <2>2 DEF EnforceGet, TypeInv, TypeOK, Holding, calendar, table, iam
<1>9. ASSUME NEW p \in Principals, EnforceStamp(p) PROVE TypeInv'
  <2>1. enf[p].pc # "idle" /\ enf[p].row \in Rows /\ enf[p].pol \in Policies
    BY <1>9, <1>0 DEF EnforceStamp, OwnWork
  <2>2. StampRow(p) \/ UNCHANGED <<table, alarmed>>
    BY <1>9 DEF EnforceStamp
  <2>3. /\ spend' \in [Rows -> Nat]
        /\ stamp' \in [Rows -> Policies \union {NoPolicy}]
        /\ DOMAIN stream' = Principals
        /\ \A q \in Principals : stream'[q] \in Seq(ImagesOf(q))
        /\ alarmed' \subseteq Rows
    BY <1>0, <2>1, <2>2, StampTyped DEF TypeOK, table
  <2>4. enf' \in [Principals -> ConsumerStates] /\ OwnWork'
    BY <1>9, <1>0, <2>1, GotoTyped, FinishTyped DEF EnforceStamp, EnfPc
  <2> QED BY <1>9, <1>0, <2>3, <2>4 DEF EnforceStamp, TypeInv, TypeOK, Holding, calendar, table, iam
<1>10. ASSUME NEW p \in Principals, EnforceStampLost(p) PROVE TypeInv'
  <2>1. enf[p].pc # "idle" /\ enf[p].row \in Rows /\ enf[p].pol \in Policies
    BY <1>10, <1>0 DEF EnforceStampLost, OwnWork
  <2>2. StampRow(p)
    BY <1>10 DEF EnforceStampLost
  <2>3. enf' \in [Principals -> ConsumerStates] /\ OwnWork'
    BY <1>10, <1>0, FinishTyped DEF EnforceStampLost
  <2>4. used' \in Counts
    BY <1>10, <1>0, UseTyped DEF EnforceStampLost
  <2> QED BY <1>10, <1>0, <2>1, <2>2, <2>3, <2>4, StampTyped
          DEF EnforceStampLost, TypeInv, TypeOK, Holding, calendar, iam
<1>11. ASSUME NEW p \in Principals, EnforceAttach(p) PROVE TypeInv'
  <2>1. enf[p].pc # "idle" /\ enf[p].row \in Rows /\ enf[p].pol \in Policies
    BY <1>11, <1>0 DEF EnforceAttach, OwnWork
  <2>2. enf' \in [Principals -> ConsumerStates] /\ OwnWork'
    BY <1>11, <1>0, FinishTyped DEF EnforceAttach
  <2> QED BY <1>11, <1>0, <2>1, <2>2 DEF EnforceAttach, TypeInv, TypeOK, Holding, calendar, table, iam
<1>12. ASSUME NEW p \in Principals, EnforceAttachStuck(p) PROVE TypeInv'
  <2>1. enf[p].pc # "idle" /\ enf[p].row \in Rows /\ enf[p].pol \in Policies
    BY <1>12, <1>0 DEF EnforceAttachStuck, OwnWork
  <2>2. enf' \in [Principals -> ConsumerStates] /\ OwnWork'
    BY <1>12, <1>0, FinishTyped DEF EnforceAttachStuck
  <2> QED BY <1>12, <1>0, <2>1, <2>2 DEF EnforceAttachStuck, TypeInv, TypeOK, Holding, calendar, table, iam
<1>13. ASSUME NEW p \in Principals, EnforceFault(p) PROVE TypeInv'
  <2>1. used' \in Counts
    BY <1>13, <1>0, UseTyped DEF EnforceFault
  <2>2. enf' \in [Principals -> ConsumerStates] /\ OwnWork'
    BY <1>13, <1>0, FinishTyped DEF EnforceFault
  <2>3. alarmed' \subseteq Rows
    BY <1>13, <1>0 DEF EnforceFault, TypeOK, OwnWork
  <2> QED BY <1>13, <1>0, <2>1, <2>2, <2>3 DEF EnforceFault, TypeInv, TypeOK, Holding, calendar, table, iam
<1>14. ASSUME NEW p \in Principals, EnforceCheckpoint(p) PROVE TypeInv'
  <2>1. enf[p].cursor + 1 \in Nat \ {0} /\ paused \in BOOLEAN
    BY <1>0 DEF TypeOK, ConsumerStates
  <2>2. DOMAIN stream' = Principals /\ \A q \in Principals : stream'[q] \in Seq(ImagesOf(q))
    BY <1>14, <1>0, <2>1, RestTyped DEF EnforceCheckpoint
  <2>3. enf' \in [Principals -> ConsumerStates] /\ OwnWork'
    BY <1>14, <1>0, <2>1, RestartTyped DEF EnforceCheckpoint
  <2> QED BY <1>14, <1>0, <2>2, <2>3 DEF EnforceCheckpoint, TypeInv, TypeOK, Holding, calendar, table, iam
<1>15. ASSUME NEW p \in Principals, EnforceCrash(p) PROVE TypeInv'
  <2>1. used' \in Counts
    BY <1>15, <1>0, UseTyped DEF EnforceCrash
  <2>2. /\ enf[p].cursor + 2 \in Nat \ {0}
        /\ enf[p].retries + 1 \in Nat /\ paused \in BOOLEAN
    BY <1>0 DEF TypeOK, ConsumerStates
  <2>3. DOMAIN stream' = Principals /\ \A q \in Principals : stream'[q] \in Seq(ImagesOf(q))
    <3>1. CASE UNCHANGED stream
      BY <1>0, <3>1 DEF TypeOK
    <3>2. CASE stream' = [stream EXCEPT ![p] = SubSeq(@, enf[p].cursor + 2, Len(@))]
      BY <1>0, <2>2, <3>2, RestTyped
    <3> QED BY <1>15, <3>1, <3>2 DEF EnforceCrash
  <2>4. enf' \in [Principals -> ConsumerStates] /\ OwnWork'
    BY <1>15, <1>0, <2>2, RestartTyped DEF EnforceCrash
  <2> QED BY <1>15, <1>0, <2>1, <2>3, <2>4 DEF EnforceCrash, TypeInv, TypeOK, Holding, calendar, table, iam
<1>16. ASSUME NEW x \in Removers, NEW r \in Rows, ReleaseStart(x, r) PROVE TypeInv'
  <2>1. used' \in Counts
    BY <1>16, <1>0, UseTyped DEF ReleaseStart
  <2> DEFINE start == [pc |-> "list", mode |-> "release", todo |-> {},
                       row |-> r, pol |-> stamp[r]]
  <2>2. stamp[r] \in Policies
    BY <1>16, <1>0 DEF ReleaseStart, TypeOK
  <2>3. /\ start \in RemoverStates
        /\ start.pc = "list" /\ start.row \in Rows /\ start.pol \in Policies
    BY <2>2 DEF RemoverStates, RemPc
  <2>4. rem' = [rem EXCEPT ![x] = start]
    BY <1>16 DEF ReleaseStart
  <2> HIDE DEF start
  <2>5. rem' \in [Removers -> RemoverStates] /\ Holding'
    BY <1>0, <2>3, <2>4 DEF TypeOK, Holding
  <2> QED BY <1>16, <1>0, <2>1, <2>5 DEF ReleaseStart, TypeInv, TypeOK, OwnWork, calendar, table, iam
<1>17. ASSUME NEW x \in Removers, NEW d \in Periods, ScheduledRollover(x, d) PROVE TypeInv'
  <2>1. RolloverSnapshot(x, d)
    BY <1>17 DEF ScheduledRollover
  <2>2. rem' \in [Removers -> RemoverStates] /\ Holding'
    BY <1>0, <2>1, SnapshotTyped
  <2> QED BY <1>17, <1>0, <2>1, <2>2 DEF ScheduledRollover, RolloverSnapshot, TypeInv, TypeOK, OwnWork, calendar, table, iam
<1>18. ASSUME NEW x \in Removers, NEW d \in Periods, ManualRollover(x, d) PROVE TypeInv'
  <2>1. RolloverSnapshot(x, d)
    BY <1>18 DEF ManualRollover
  <2>2. rem' \in [Removers -> RemoverStates] /\ Holding'
    BY <1>0, <2>1, SnapshotTyped
  <2>3. used' \in Counts
    BY <1>18, <1>0, UseTyped DEF ManualRollover
  <2> QED BY <1>18, <1>0, <2>1, <2>2, <2>3 DEF ManualRollover, RolloverSnapshot, TypeInv, TypeOK, OwnWork, calendar, table, iam
<1>19. ASSUME NEW x \in Removers, RolloverNext(x) PROVE TypeInv'
  <2>1. ASSUME NEW c \in rem[x].todo,
               rem' = [rem EXCEPT ![x].pc = "list", ![x].todo = @ \ {c},
                                  ![x].row = c[1], ![x].pol = c[2]]
        PROVE  rem' \in [Removers -> RemoverStates] /\ Holding'
    <3>1. rem \in [Removers -> RemoverStates] /\ c \in Rows \X Policies
      BY <1>0 DEF TypeOK, RemoverStates
    <3>2. rem' \in [Removers -> RemoverStates]
      BY <2>1, <3>1 DEF RemoverStates, RemPc
    <3>3. Holding'
      BY <1>0, <2>1, <3>1 DEF Holding, RemoverStates
    <3> QED BY <3>2, <3>3
  <2>2. rem' \in [Removers -> RemoverStates] /\ Holding'
    BY <1>19, <1>0, <2>1, StoppedTyped DEF RolloverNext
  <2> QED BY <1>19, <1>0, <2>2 DEF RolloverNext, TypeInv, TypeOK, OwnWork, calendar, table, iam
<1>20. ASSUME NEW x \in Removers, RemoveList(x) PROVE TypeInv'
  <2>1. rem' \in [Removers -> RemoverStates] /\ Holding'
    BY <1>20, <1>0, RemGotoTyped, GiveUpTyped DEF RemoveList
  <2> QED BY <1>20, <1>0, <2>1 DEF RemoveList, TypeInv, TypeOK, OwnWork, calendar, table, iam
<1>21. ASSUME NEW x \in Removers, RemoveDetach(x) PROVE TypeInv'
  <2>1. rem' \in [Removers -> RemoverStates] /\ Holding'
    BY <1>21, <1>0, RemGotoTyped, GiveUpTyped DEF RemoveDetach
  <2> QED BY <1>21, <1>0, <2>1 DEF RemoveDetach, TypeInv, TypeOK, OwnWork, calendar, table, iam
<1>22. ASSUME NEW x \in Removers, RemoveDelete(x) PROVE TypeInv'
  <2>1. rem' \in [Removers -> RemoverStates] /\ Holding'
    BY <1>22, <1>0, RemGotoTyped, GiveUpTyped DEF RemoveDelete
  <2> QED BY <1>22, <1>0, <2>1 DEF RemoveDelete, TypeInv, TypeOK, OwnWork, calendar, table, iam
<1>23. ASSUME NEW x \in Removers, RemoveClear(x) PROVE TypeInv'
  <2>1. rem' \in [Removers -> RemoverStates] /\ Holding'
    BY <1>23, <1>0, GiveUpTyped DEF RemoveClear
  <2>2. rem[x].row \in Rows
    BY <1>23, <1>0 DEF RemoveClear, Holding
  <2>3. /\ spend' \in [Rows -> Nat]
        /\ stamp' \in [Rows -> Policies \union {NoPolicy}]
        /\ DOMAIN stream' = Principals
        /\ \A q \in Principals : stream'[q] \in Seq(ImagesOf(q))
    <3>1. CASE UNCHANGED table
      BY <1>0, <3>1 DEF table, TypeOK
    <3>2. CASE /\ stamp' = [stamp EXCEPT ![rem[x].row] = NoPolicy]
               /\ Publish(rem[x].row, spend[rem[x].row], NoPolicy)
               /\ UNCHANGED spend
      <4>1. spend[rem[x].row] \in Nat
        BY <1>0, <2>2 DEF TypeOK
      <4>2. DOMAIN stream' = Principals /\ \A q \in Principals : stream'[q] \in Seq(ImagesOf(q))
        BY <1>0, <2>2, <3>2, <4>1, PublishTyped
      <4> QED BY <1>0, <3>2, <4>2 DEF TypeOK
    <3> QED BY <1>23, <3>1, <3>2 DEF RemoveClear
  <2> QED BY <1>23, <1>0, <2>1, <2>3 DEF RemoveClear, TypeInv, TypeOK, OwnWork, calendar, table, iam
<1>24. ASSUME NEW x \in Removers, RemoveFault(x) PROVE TypeInv'
  <2>1. rem' \in [Removers -> RemoverStates] /\ Holding'
    BY <1>24, <1>0, StoppedTyped, GiveUpTyped DEF RemoveFault
  <2>2. used' \in Counts
    BY <1>24, <1>0, UseTyped DEF RemoveFault
  <2> QED BY <1>24, <1>0, <2>1, <2>2 DEF RemoveFault, TypeInv, TypeOK, OwnWork, calendar, table, iam
<1>25. ASSUME NEW x \in Removers, RemoveCrash(x) PROVE TypeInv'
  <2>1. rem' \in [Removers -> RemoverStates] /\ Holding'
    BY <1>25, <1>0, StoppedTyped DEF RemoveCrash
  <2>2. used' \in Counts
    BY <1>25, <1>0, UseTyped DEF RemoveCrash
  <2> QED BY <1>25, <1>0, <2>1, <2>2 DEF RemoveCrash, TypeInv, TypeOK, OwnWork, calendar, table, iam
<1>26. CASE UNCHANGED vars
  BY <1>0, <1>26 DEF TypeInv, TypeOK, OwnWork, Holding, vars, calendar, table, iam
<1> QED
  BY <1>1, <1>2, <1>3, <1>4, <1>5, <1>6, <1>7, <1>8, <1>9,
     <1>10, <1>11, <1>12, <1>13, <1>14, <1>15, <1>16, <1>17, <1>18,
     <1>19, <1>20, <1>21, <1>22, <1>23, <1>24, <1>25, <1>26 DEF Next, EnforcerStep, RemoverStep

(* The types hold at first. *)
LEMMA TypeInvInit == Init => TypeInv
<1> SUFFICES ASSUME Init PROVE TypeInv
  OBVIOUS
<1>1. Consumer(0, 0, FALSE) \in ConsumerStates /\ Consumer(0, 0, FALSE).pc = "idle"
  BY DEF Consumer, ConsumerStates, EnfPc
<1>2. Resting \in RemoverStates
  BY DEF Resting, RemoverStates, RemPc
<1>3. 1 \in Periods
  BY BoundsAssumption DEF Periods
<1>4. budget \in [BudgetKeys -> Budgets \union {NoBudget}]
  BY TargetsAssumption DEF Init
<1>5. \A p \in Principals : stream[p] \in Seq(ImagesOf(p))
  BY EmptySeq DEF Init
<1>6. TypeOK
  BY <1>1, <1>2, <1>3, <1>4, <1>5 DEF Init, TypeOK, Counts
<1>7. OwnWork
  BY <1>1 DEF Init, OwnWork
<1>8. Holding
  BY DEF Init, Holding, Resting
<1> QED BY <1>6, <1>7, <1>8 DEF TypeInv

(* The variables keep their types, whatever interleaves.                   *)
THEOREM TypeCorrect == Spec => []TypeOK
<1>1. Spec => []TypeInv
  BY TypeInvInit, TypeInvStep, PTL DEF Spec
<1>2. TypeInv => TypeOK
  BY DEF TypeInv
<1> QED BY <1>1, <1>2, PTL

-------------------------------------------------------------------------------
(***************************************************************************)
(* A deny in force is always on record.  Safe is IInv without its types.   *)
(***************************************************************************)
Safe ==
  /\ AttachedExist
  /\ ClaimsStamped
  /\ ClaimsDisjoint
  /\ AttachRecorded
  /\ ClearSafe
  /\ NoOrphanDeny

(* Claims are pairs of a row and a policy.                                 *)
LEMMA ClaimsTyped ==
  ASSUME TypeInv, NEW x \in Removers
  PROVE  Claims(x) \subseteq Rows \X Policies
<1>1. TypeOK /\ Holding
  BY DEF TypeInv
<1>2. rem[x] \in RemoverStates
  BY <1>1 DEF TypeOK
<1>3. rem[x].todo \subseteq Rows \X Policies
  BY <1>2 DEF RemoverStates
<1>4. rem[x].pol # NoPolicy => rem[x].row \in Rows /\ rem[x].pol \in Policies
  BY <1>1 DEF Holding
<1> QED BY <1>3, <1>4 DEF Claims

(* A remover that holds a row claims it.                                   *)
LEMMA HeldClaimed ==
  ASSUME TypeInv, NEW x \in Removers, rem[x].pc \notin {"idle", "next"}
  PROVE  /\ rem[x].row \in Rows /\ rem[x].pol \in Policies
         /\ <<rem[x].row, rem[x].pol>> \in Claims(x)
<1>1. rem[x].row \in Rows /\ rem[x].pol \in Policies
  BY DEF TypeInv, Holding
<1> QED BY <1>1, NullAssumption DEF Claims

(* What the consumer's moves do to its shard's consumer, and to no other.  *)
LEMMA FinishIdle ==
  ASSUME TypeInv, NEW p \in Principals, Finish(p)
  PROVE  enf'[p].pc = "idle" /\ \A q \in Principals \ {p} : enf'[q] = enf[q]
BY DEF TypeInv, TypeOK, Finish, Advanced, Consumer

(* Going on to another call changes one consumer and nothing else of it. *)
LEMMA GotoMoves ==
  ASSUME TypeInv, NEW p \in Principals, NEW pc, Goto(p, pc)
  PROVE  /\ enf'[p].pc = pc
         /\ enf'[p].row = enf[p].row /\ enf'[p].pol = enf[p].pol
         /\ \A q \in Principals \ {p} : enf'[q] = enf[q]
<1>1. enf \in [Principals -> ConsumerStates]
  BY DEF TypeInv, TypeOK
<1>2. enf' = [enf EXCEPT ![p] = [enf[p] EXCEPT !.pc = pc]]
  BY <1>1 DEF Goto
<1>3. /\ [enf[p] EXCEPT !.pc = pc].pc = pc
      /\ [enf[p] EXCEPT !.pc = pc].row = enf[p].row
      /\ [enf[p] EXCEPT !.pc = pc].pol = enf[p].pol
  BY <1>1 DEF ConsumerStates
<1> QED BY <1>1, <1>2, <1>3

(* What the removers' moves do to their claims.                            *)
LEMMA RemGotoMoves ==
  ASSUME TypeInv, NEW x \in Removers, NEW pc, RemGoto(x, pc)
  PROVE  /\ rem'[x].pc = pc /\ rem'[x].todo = rem[x].todo
         /\ rem'[x].row = rem[x].row /\ rem'[x].pol = rem[x].pol
         /\ Claims(x)' = Claims(x)
         /\ \A y \in Removers \ {x} : rem'[y] = rem[y]
<1>1. rem \in [Removers -> RemoverStates]
  BY DEF TypeInv, TypeOK
<1>2. rem' = [rem EXCEPT ![x] = [rem[x] EXCEPT !.pc = pc]]
  BY <1>1 DEF RemGoto
<1>3. /\ [rem[x] EXCEPT !.pc = pc].pc = pc
      /\ [rem[x] EXCEPT !.pc = pc].todo = rem[x].todo
      /\ [rem[x] EXCEPT !.pc = pc].row = rem[x].row
      /\ [rem[x] EXCEPT !.pc = pc].pol = rem[x].pol
  BY <1>1 DEF RemoverStates
<1>4. /\ rem'[x].pc = pc /\ rem'[x].todo = rem[x].todo
      /\ rem'[x].row = rem[x].row /\ rem'[x].pol = rem[x].pol
      /\ \A y \in Removers \ {x} : rem'[y] = rem[y]
  BY <1>1, <1>2, <1>3
<1> QED BY <1>4 DEF Claims

(* A remover that stops claims no row, and no other remover moves. *)
LEMMA StopDropsClaims ==
  ASSUME TypeInv, NEW x \in Removers, rem' = [rem EXCEPT ![x] = Resting]
  PROVE  /\ rem'[x].pc = "idle" /\ Claims(x)' = {}
         /\ \A y \in Removers \ {x} : rem'[y] = rem[y]
BY DEF TypeInv, TypeOK, Resting, Claims

(* A remover that gives up a row claims only rows it has still to do. *)
LEMMA GiveUpDropsClaim ==
  ASSUME TypeInv, NEW x \in Removers, GiveUp(x)
  PROVE  /\ rem'[x].pc \in {"idle", "next"} /\ Claims(x)' \subseteq rem[x].todo
         /\ \A y \in Removers \ {x} : rem'[y] = rem[y]
<1> DEFINE next == [rem[x] EXCEPT !.pc = "next", !.row = NoRow, !.pol = NoPolicy]
<1>1. rem \in [Removers -> RemoverStates]
  BY DEF TypeInv, TypeOK
<1>2. CASE rem' = [rem EXCEPT ![x] = Resting]
  BY <1>2, StopDropsClaims
<1>3. CASE rem' = [rem EXCEPT ![x] = next]
  <2>1. next.pc = "next" /\ next.todo = rem[x].todo /\ next.pol = NoPolicy
    BY <1>1 DEF RemoverStates
  <2> HIDE DEF next
  <2>2. rem'[x] = next /\ \A y \in Removers \ {x} : rem'[y] = rem[y]
    BY <1>1, <1>3
  <2> QED BY <2>1, <2>2 DEF Claims
<1>4. rem' = [rem EXCEPT ![x] = Resting] \/ rem' = [rem EXCEPT ![x] = next]
  BY DEF GiveUp
<1> QED BY <1>2, <1>3, <1>4

(* Steps that change no stamp, policy or claim, and bring no consumer to   *)
(* its attach.                                                             *)
LEMMA ConsumerQuiet ==
  ASSUME Safe, UNCHANGED <<stamp, policies, attached, rem>>,
         \A p \in Principals : enf'[p].pc = "attach" =>
           /\ enf[p].pc = "attach"
           /\ enf'[p].row = enf[p].row /\ enf'[p].pol = enf[p].pol
  PROVE  Safe'
<1>1. AttachedExist' /\ NoOrphanDeny'
  BY DEF Safe, AttachedExist, NoOrphanDeny
<1>2. ClaimsStamped' /\ ClaimsDisjoint'
  BY DEF Safe, ClaimsStamped, ClaimsDisjoint, Claims
<1>3. AttachRecorded'
  BY DEF Safe, AttachRecorded
<1>4. ClearSafe'
  BY DEF Safe, ClearSafe
<1> QED BY <1>1, <1>2, <1>3, <1>4 DEF Safe

(* Steps of a remover that at most give up claims and detach.              *)
LEMMA ClaimsShrink ==
  ASSUME Safe, NEW x \in Removers, UNCHANGED <<stamp, policies, enf>>,
         attached' \subseteq attached, Claims(x)' \subseteq Claims(x),
         rem'[x].pc # "clear",
         rem'[x].pc \notin {"idle", "next"} =>
           <<rem'[x].row, rem'[x].pol>> \notin rem'[x].todo,
         \A y \in Removers \ {x} : rem'[y] = rem[y]
  PROVE  Safe'
<1>1. AttachedExist' /\ NoOrphanDeny' /\ AttachRecorded'
  BY DEF Safe, AttachedExist, NoOrphanDeny, AttachRecorded
<1>2. \A y \in Removers : Claims(y)' \subseteq Claims(y)
  BY DEF Claims
<1>3. ClaimsStamped'
  BY <1>2 DEF Safe, ClaimsStamped
<1>4. ClaimsDisjoint'
  BY <1>2 DEF Safe, ClaimsDisjoint
<1>5. ClearSafe'
  BY DEF Safe, ClearSafe
<1> QED BY <1>1, <1>3, <1>4, <1>5 DEF Safe

(* A remover takes new claims on stamped rows; Serialized keeps other      *)
(* removers off those policies.                                            *)
LEMMA ClaimsTaken ==
  ASSUME TypeInv, Safe, Serialized, NEW x \in Removers, NEW S,
         UNCHANGED <<stamp, policies, attached, enf>>, Free(x, S),
         \A c \in Claims(x)' : c[2] \in S /\ stamp[c[1]] = c[2],
         rem'[x].pc # "clear", rem'[x].pc # "next" => rem'[x].todo = {},
         \A y \in Removers \ {x} : rem'[y] = rem[y]
  PROVE  Safe'
<1>1. AttachedExist' /\ NoOrphanDeny' /\ AttachRecorded'
  BY DEF Safe, AttachedExist, NoOrphanDeny, AttachRecorded
<1>2. \A y \in Removers \ {x} : Claims(y)' = Claims(y)
  BY DEF Claims
<1>3. ClaimsStamped'
  BY <1>2 DEF Safe, ClaimsStamped
<1>4. \A y \in Removers \ {x} : \A c \in Claims(y) : c[2] \notin S
  BY DEF Free
<1>5. ClaimsDisjoint'
  <2>1. \A y, z \in Removers \ {x} : \A c \in Claims(y)', e \in Claims(z)' :
          c[2] = e[2] => y = z
    BY <1>2 DEF Safe, ClaimsDisjoint
  <2>2. \A y \in Removers \ {x} : \A c \in Claims(y)', e \in Claims(x)' : c[2] # e[2]
    BY <1>2, <1>4
  <2>3. \A y \in Removers : rem'[y].pc \notin {"idle", "next"} =>
          <<rem'[y].row, rem'[y].pol>> \notin rem'[y].todo
    BY DEF Safe, ClaimsDisjoint
  <2> QED BY <2>1, <2>2, <2>3 DEF ClaimsDisjoint
<1>6. ClearSafe'
  BY DEF Safe, ClearSafe
<1> QED BY <1>1, <1>3, <1>5, <1>6 DEF Safe

(* A row that carries no stamp is stamped: nobody claims it, and no other  *)
(* consumer works on it.                                                   *)
LEMMA StampSafe ==
  ASSUME TypeInv, Safe, NEW p \in Principals, enf[p].pc = "stamp", StampRow(p),
         UNCHANGED <<policies, attached, rem>>,
         enf'[p].pc = "attach" =>
           enf'[p].row = enf[p].row /\ enf'[p].pol = enf[p].pol,
         \A q \in Principals \ {p} : enf'[q] = enf[q]
  PROVE  Safe'
<1> DEFINE row == enf[p].row  pol == enf[p].pol
<1>1. /\ row \in Rows /\ row.principal = p /\ pol \in Policies
      /\ stamp \in [Rows -> Policies \union {NoPolicy}]
      /\ pol # NoPolicy
  BY NullAssumption DEF TypeInv, TypeOK, OwnWork
<1>2. /\ stamp[row] = NoPolicy /\ stamp'[row] = pol
      /\ \A r \in Rows \ {row} : stamp'[r] = stamp[r]
  BY <1>1 DEF StampRow
<1>3. \A x \in Removers : \A c \in Claims(x) :
        c[1] \in Rows /\ c[1] # row /\ stamp'[c[1]] = c[2]
  <2>1. ASSUME NEW x \in Removers, NEW c \in Claims(x)
        PROVE  c[1] \in Rows /\ c[2] \in Policies /\ stamp[c[1]] = c[2]
    BY <2>1, ClaimsTyped DEF Safe, ClaimsStamped
  <2> QED BY <1>2, <2>1, NullAssumption
<1> HIDE DEF row, pol
<1>4. AttachedExist'
  BY DEF Safe, AttachedExist
<1>5. ClaimsStamped'
  BY <1>3 DEF ClaimsStamped, Claims
<1>6. ClaimsDisjoint'
  BY DEF Safe, ClaimsDisjoint, Claims
<1>7. \A q \in Principals \ {p} : enf[q].pc # "idle" => enf[q].row \in Rows \ {row}
  BY <1>1 DEF TypeInv, OwnWork
<1>8. AttachRecorded'
  BY <1>2, <1>7 DEF Safe, AttachRecorded, row, pol
<1>9. ClearSafe'
  <2>1. ASSUME NEW x \in Removers, rem[x].pc = "clear"
        PROVE  rem[x].row # row
    BY <1>3, <2>1, HeldClaimed
  <2>2. ASSUME NEW x \in Removers, rem[x].pc = "clear", rem[x].pol \in attached
        PROVE  \E r \in Rows \ {rem[x].row} : stamp'[r] = rem[x].pol
    <3>1. PICK r \in Rows \ {rem[x].row} : stamp[r] = rem[x].pol
      BY <2>2 DEF Safe, ClearSafe
    <3>2. rem[x].pol \in Policies
      BY <2>2, HeldClaimed
    <3>3. r # row
      BY <1>2, <3>1, <3>2, NullAssumption
    <3> QED BY <1>2, <3>1, <3>3
  <2> QED BY <2>1, <2>2 DEF Safe, ClearSafe, row, pol
<1>10. NoOrphanDeny'
  <2>1. ASSUME NEW a \in attached PROVE \E r \in Rows : stamp'[r] = a
    <3>1. PICK r \in Rows : stamp[r] = a
      BY <2>1 DEF Safe, NoOrphanDeny
    <3>2. a # NoPolicy
      BY <2>1, NullAssumption DEF TypeInv, TypeOK
    <3> QED BY <1>2, <3>1, <3>2
  <2> QED BY <2>1 DEF NoOrphanDeny
<1> QED BY <1>4, <1>5, <1>6, <1>8, <1>9, <1>10 DEF Safe

(* Creating a policy revives no attach in flight: only this consumer works *)
(* on policies of its principal.                                           *)
LEMMA CreateSafe ==
  ASSUME TypeInv, Safe, NEW p \in Principals, EnforceCreate(p)
  PROVE  Safe'
<1> DEFINE pol == enf[p].pol
<1>1. /\ enf[p].pc = "create" /\ policies' = policies \union {pol}
      /\ UNCHANGED <<stamp, attached, rem>>
  BY DEF EnforceCreate, table
<1>2. enf'[p].pc # "attach" /\ \A q \in Principals \ {p} : enf'[q] = enf[q]
  BY GotoMoves DEF EnforceCreate
<1>3. \A q \in Principals : enf'[q].pc = "attach" =>
        enf'[q] = enf[q] /\ enf[q].pol # pol
  BY <1>1, <1>2 DEF TypeInv, OwnWork
<1> HIDE DEF pol
<1>4. AttachedExist' /\ NoOrphanDeny'
  BY <1>1 DEF Safe, AttachedExist, NoOrphanDeny
<1>5. ClaimsStamped' /\ ClaimsDisjoint'
  BY <1>1 DEF Safe, ClaimsStamped, ClaimsDisjoint, Claims
<1>6. AttachRecorded'
  BY <1>1, <1>3 DEF Safe, AttachRecorded
<1>7. ClearSafe'
  BY <1>1, <1>3 DEF Safe, ClearSafe
<1> QED BY <1>4, <1>5, <1>6, <1>7 DEF Safe

(* What is attached is on record on the consumer's own row, which no       *)
(* remover is about to clear.                                              *)
LEMMA AttachSafe ==
  ASSUME TypeInv, Safe, NEW p \in Principals, EnforceAttach(p)
  PROVE  Safe'
<1> DEFINE row == enf[p].row  pol == enf[p].pol
<1>1. enf[p].pc = "attach" /\ UNCHANGED <<stamp, policies, rem>>
  BY DEF EnforceAttach, table
<1>2. enf'[p].pc = "idle" /\ \A q \in Principals \ {p} : enf'[q] = enf[q]
  BY FinishIdle DEF EnforceAttach
<1>3. CASE UNCHANGED attached
  BY <1>1, <1>2, <1>3, ConsumerQuiet
<1>4. CASE pol \in policies /\ attached' = attached \union {pol}
  <2>1. row \in Rows /\ stamp[row] = pol
    BY <1>1, <1>4 DEF Safe, AttachRecorded, TypeInv, OwnWork
  <2>2. \A x \in Removers : rem[x].pc = "clear" => rem[x].row # row
    BY <1>1, <1>4 DEF Safe, ClearSafe
  <2> HIDE DEF row
  <2>3. AttachedExist' /\ NoOrphanDeny'
    BY <1>1, <1>4, <2>1 DEF Safe, AttachedExist, NoOrphanDeny
  <2>4. ClaimsStamped' /\ ClaimsDisjoint'
    BY <1>1 DEF Safe, ClaimsStamped, ClaimsDisjoint, Claims
  <2>5. AttachRecorded'
    BY <1>1, <1>2 DEF Safe, AttachRecorded
  <2>6. ClearSafe'
    BY <1>1, <1>2, <1>4, <2>1, <2>2 DEF Safe, ClearSafe
  <2> QED BY <2>3, <2>4, <2>5, <2>6 DEF Safe
<1> QED BY <1>3, <1>4 DEF EnforceAttach

(* Deleting a detached policy makes clearing the row safe: an attach in    *)
(* flight for that row was for this policy and is now bound to fail.       *)
LEMMA DeleteSafe ==
  ASSUME TypeInv, Safe, NEW x \in Removers, RemoveDelete(x)
  PROVE  Safe'
<1> DEFINE row == rem[x].row  pol == rem[x].pol
<1>1. /\ rem[x].pc = "delete" /\ UNCHANGED <<stamp, attached, enf>>
      /\ row \in Rows /\ pol \in Policies /\ <<row, pol>> \in Claims(x)
  BY HeldClaimed DEF RemoveDelete, table
<1>2. CASE UNCHANGED policies /\ GiveUp(x)
  <2>1. rem[x].todo \subseteq Claims(x)
    BY DEF Claims
  <2> QED BY <1>1, <1>2, <2>1, GiveUpDropsClaim, ClaimsShrink
<1>3. CASE /\ pol \in policies \ attached /\ policies' = policies \ {pol}
           /\ RemGoto(x, "clear")
  <2>1. /\ rem'[x].pc = "clear" /\ rem'[x].todo = rem[x].todo
        /\ rem'[x].row = row /\ rem'[x].pol = pol
        /\ \A y \in Removers : Claims(y)' = Claims(y)
        /\ \A y \in Removers \ {x} : rem'[y] = rem[y]
    BY <1>3, RemGotoMoves DEF Claims
  <2>2. stamp[row] = pol
    BY <1>1 DEF Safe, ClaimsStamped
  <2>3. \A p \in Principals : enf[p].pc = "attach" /\ enf[p].row = row
          => enf[p].pol \notin policies'
    BY <1>3, <2>2 DEF Safe, AttachRecorded
  <2>4. rem[x].pc \notin {"idle", "next"}
    BY <1>1
  <2> HIDE DEF row, pol
  <2>5. AttachedExist' /\ NoOrphanDeny'
    BY <1>1, <1>3 DEF Safe, AttachedExist, NoOrphanDeny
  <2>6. ClaimsStamped'
    BY <1>1, <2>1 DEF Safe, ClaimsStamped
  <2>7. ClaimsDisjoint'
    BY <2>1, <2>4 DEF Safe, ClaimsDisjoint, row, pol
  <2>8. AttachRecorded'
    BY <1>1, <1>3 DEF Safe, AttachRecorded
  <2>9. ClearSafe'
    BY <1>1, <1>3, <2>1, <2>3 DEF Safe, ClearSafe
  <2> QED BY <2>5, <2>6, <2>7, <2>8, <2>9 DEF Safe
<1> QED BY <1>2, <1>3 DEF RemoveDelete

(* Clearing a row loses no record of a deny in force.                      *)
LEMMA ClearKeepsRecord ==
  ASSUME TypeInv, Safe, NEW x \in Removers, RemoveClear(x)
  PROVE  Safe'
<1> DEFINE row == rem[x].row  pol == rem[x].pol
<1>1. /\ rem[x].pc = "clear" /\ UNCHANGED <<policies, attached, enf>>
      /\ row \in Rows /\ pol \in Policies /\ <<row, pol>> \in Claims(x)
  BY HeldClaimed DEF RemoveClear, iam
<1>2. /\ rem'[x].pc \in {"idle", "next"} /\ Claims(x)' \subseteq rem[x].todo
      /\ \A y \in Removers \ {x} : rem'[y] = rem[y]
  BY GiveUpDropsClaim DEF RemoveClear
<1>3. \A y \in Removers : Claims(y)' \subseteq Claims(y)
  BY <1>2 DEF Claims
<1>4. CASE UNCHANGED table
  BY <1>1, <1>2, <1>3, <1>4, ClaimsShrink DEF table
<1>5. CASE stamp[row] = pol /\ stamp' = [stamp EXCEPT ![row] = NoPolicy]
  <2>1. \A r \in Rows \ {row} : stamp'[r] = stamp[r]
    BY <1>5 DEF TypeInv, TypeOK
  <2>2. <<row, pol>> \notin rem[x].todo
    BY <1>1 DEF Safe, ClaimsDisjoint
  <2>3. ASSUME NEW y \in Removers, NEW c \in Claims(y)'
        PROVE  c[1] \in Rows \ {row}
    <3>1. c \in Claims(y) /\ c \in Rows \X Policies /\ stamp[c[1]] = c[2]
      BY <1>3, <2>3, ClaimsTyped DEF Safe, ClaimsStamped
    <3>2. CASE y = x
      BY <1>2, <1>5, <2>2, <2>3, <3>1, <3>2
    <3>3. CASE y # x
      <4>1. c[2] # pol
        BY <1>1, <3>1, <3>3 DEF Safe, ClaimsDisjoint
      <4> QED BY <1>5, <3>1, <4>1
    <3> QED BY <3>2, <3>3
  <2>4. ASSUME NEW y \in Removers \ {x}, rem[y].pc = "clear"
        PROVE  rem[y].pol # pol
    <3>1. <<rem[y].row, rem[y].pol>> \in Claims(y)
      BY <2>4, HeldClaimed
    <3> QED BY <1>1, <3>1 DEF Safe, ClaimsDisjoint
  <2>5. \A p \in Principals : enf[p].pc = "attach" /\ enf[p].row = row
          => enf[p].pol \notin policies
    BY <1>1 DEF Safe, ClearSafe
  <2>6. pol \in attached => \E r \in Rows \ {row} : stamp[r] = pol
    BY <1>1 DEF Safe, ClearSafe
  <2>7. \A p \in Principals : enf[p].pc = "attach" => enf[p].row \in Rows
    BY DEF TypeInv, OwnWork
  <2> HIDE DEF row, pol
  <2>8. AttachedExist'
    BY <1>1 DEF Safe, AttachedExist
  <2>9. ClaimsStamped'
    BY <1>3, <2>1, <2>3 DEF Safe, ClaimsStamped
  <2>10. ClaimsDisjoint'
    BY <1>2, <1>3 DEF Safe, ClaimsDisjoint
  <2>11. AttachRecorded'
    BY <1>1, <2>1, <2>5, <2>7 DEF Safe, AttachRecorded
  <2>12. ClearSafe'
    BY <1>1, <1>2, <1>5, <2>1, <2>4 DEF Safe, ClearSafe
  <2>13. NoOrphanDeny'
    BY <1>1, <1>5, <2>1, <2>6 DEF Safe, NoOrphanDeny
  <2> QED BY <2>8, <2>9, <2>10, <2>11, <2>12, <2>13 DEF Safe
<1> QED BY <1>4, <1>5 DEF RemoveClear, row, pol

(* The invariant is kept by every step, removals of one deny serialized.   *)
LEMMA SafeStep ==
  ASSUME Serialized, TypeInv, Safe, [Next]_vars
  PROVE  Safe'
<1> DEFINE Quiet == UNCHANGED <<stamp, policies, attached, rem>>
<1>1. CASE Tick \/ AdminPause \/ UNCHANGED vars
  <2>1. Quiet
    BY <1>1 DEF Tick, AdminPause, vars, table, iam
  <2>2. \A p \in Principals : enf'[p].pc = "attach" => enf'[p] = enf[p]
    <3>1. CASE UNCHANGED enf
      BY <3>1
    <3>2. CASE AdminPause
      <4>1. ASSUME NEW p \in Principals, AtRest(p)
            PROVE  [enf[p] EXCEPT !.off = ~paused].pc = "idle"
        BY <4>1 DEF AtRest, TypeInv, TypeOK, ConsumerStates
      <4>2. \A p \in Principals :
              enf'[p] = IF AtRest(p) THEN [enf[p] EXCEPT !.off = ~paused] ELSE enf[p]
        BY <3>2, Zenon DEF AdminPause
      <4> QED BY <4>1, <4>2
    <3> QED BY <1>1, <3>1, <3>2 DEF Tick, vars
  <2> QED BY <2>1, <2>2, ConsumerQuiet
<1>2. ASSUME NEW r \in Rows, MeterWrite(r) PROVE Safe'
  BY <1>2, ConsumerQuiet DEF MeterWrite, iam
<1>3. ASSUME NEW k \in BudgetKeys, NEW b, AdminBudget(k, b) PROVE Safe'
  BY <1>3, ConsumerQuiet DEF AdminBudget, table, iam
<1>4. ASSUME NEW p \in Principals, EnforcerStep(p) PROVE Safe'
  <2>1. CASE EnforceSkip(p) \/ EnforceAttachStuck(p)
    <3>1. Quiet /\ Finish(p)
      BY <2>1 DEF EnforceSkip, EnforceAttachStuck, table, iam
    <3> QED BY <3>1, FinishIdle, ConsumerQuiet
  <2>2. CASE EnforceDecide(p)
    <3>1. Quiet
      BY <2>2 DEF EnforceDecide, table, iam
    <3>2. enf'[p].pc = "create" /\ \A q \in Principals \ {p} : enf'[q] = enf[q]
      BY <2>2 DEF EnforceDecide, TypeInv, TypeOK, ConsumerStates
    <3> QED BY <3>1, <3>2, ConsumerQuiet
  <2>3. CASE EnforceCreate(p)
    BY <2>3, CreateSafe
  <2>4. CASE EnforceGet(p)
    <3>1. Quiet /\ (Goto(p, "stamp") \/ Finish(p))
      BY <2>4 DEF EnforceGet, table, iam
    <3>2. enf'[p].pc # "attach" /\ \A q \in Principals \ {p} : enf'[q] = enf[q]
      BY <3>1, FinishIdle, GotoMoves
    <3> QED BY <3>1, <3>2, ConsumerQuiet
  <2>5. CASE EnforceStamp(p)
    <3>1. /\ enf[p].pc = "stamp" /\ UNCHANGED <<policies, attached, rem>>
          /\ \/ StampRow(p) /\ Goto(p, "attach")
             \/ Finish(p) /\ UNCHANGED stamp
      BY <2>5 DEF EnforceStamp, table, iam
    <3>2. CASE StampRow(p) /\ Goto(p, "attach")
      BY <3>1, <3>2, GotoMoves, StampSafe
    <3>3. CASE Finish(p) /\ UNCHANGED stamp
      BY <3>1, <3>3, FinishIdle, ConsumerQuiet
    <3> QED BY <3>1, <3>2, <3>3
  <2>6. CASE EnforceAttach(p)
    BY <2>6, AttachSafe
  <2>7. CASE EnforceCheckpoint(p)
    <3>1. Quiet
      BY <2>7 DEF EnforceCheckpoint, iam
    <3>2. enf'[p].pc = "idle" /\ \A q \in Principals \ {p} : enf'[q] = enf[q]
      BY <2>7 DEF EnforceCheckpoint, Consumer, TypeInv, TypeOK
    <3> QED BY <3>1, <3>2, ConsumerQuiet
  <2> QED BY <1>4, <2>1, <2>2, <2>3, <2>4, <2>5, <2>6, <2>7 DEF EnforcerStep
<1>5. ASSUME NEW p \in Principals, EnforceStampLost(p) PROVE Safe'
  <2>1. /\ enf[p].pc = "stamp" /\ UNCHANGED <<policies, attached, rem>>
        /\ StampRow(p) /\ Finish(p)
    BY <1>5 DEF EnforceStampLost, iam
  <2> QED BY <2>1, FinishIdle, StampSafe
<1>6. ASSUME NEW p \in Principals, EnforceFault(p) PROVE Safe'
  <2>1. Quiet /\ Finish(p)
    BY <1>6 DEF EnforceFault, table, iam
  <2> QED BY <2>1, FinishIdle, ConsumerQuiet
<1>7. ASSUME NEW p \in Principals, EnforceCrash(p) PROVE Safe'
  <2>1. Quiet
    BY <1>7 DEF EnforceCrash, iam
  <2>2. enf'[p].pc = "idle" /\ \A q \in Principals \ {p} : enf'[q] = enf[q]
    BY <1>7 DEF EnforceCrash, Consumer, TypeInv, TypeOK
  <2> QED BY <2>1, <2>2, ConsumerQuiet
<1>8. ASSUME NEW x \in Removers, NEW r \in Rows, ReleaseStart(x, r) PROVE Safe'
  <2>1. /\ UNCHANGED <<stamp, policies, attached, enf>>
        /\ Free(x, {stamp[r]})
    BY <1>8 DEF ReleaseStart, table, iam
  <2>2. /\ rem'[x] = [pc |-> "list", mode |-> "release", todo |-> {},
                      row |-> r, pol |-> stamp[r]]
        /\ \A y \in Removers \ {x} : rem'[y] = rem[y]
    BY <1>8 DEF ReleaseStart, TypeInv, TypeOK
  <2>3. Claims(x)' \subseteq {<<r, stamp[r]>>}
    BY <2>2 DEF Claims
  <2>4. rem'[x].pc # "clear" /\ rem'[x].todo = {}
    BY <2>2
  <2> QED BY <2>1, <2>2, <2>3, <2>4, ClaimsTaken
<1>9. ASSUME NEW x \in Removers, NEW d \in Periods,
             ScheduledRollover(x, d) \/ ManualRollover(x, d)
      PROVE  Safe'
  <2> DEFINE S == {c[2] : c \in Stamped(d)}
             start == [Resting EXCEPT !.pc = "next", !.mode = "rollover", !.todo = Stamped(d)]
  <2>1. RolloverSnapshot(x, d)
    BY <1>9 DEF ScheduledRollover, ManualRollover
  <2>2. UNCHANGED <<stamp, policies, attached, enf>> /\ Free(x, S)
    BY <2>1 DEF RolloverSnapshot, table, iam
  <2>3. start.pc = "next" /\ start.todo = Stamped(d) /\ start.pol = NoPolicy
    BY DEF Resting
  <2>4. rem' = [rem EXCEPT ![x] = start]
    BY <2>1 DEF RolloverSnapshot
  <2> HIDE DEF start
  <2>5. /\ rem'[x].pc = "next" /\ Claims(x)' = Stamped(d)
        /\ \A y \in Removers \ {x} : rem'[y] = rem[y]
    BY <2>3, <2>4 DEF TypeInv, TypeOK, Claims
  <2>6. \A c \in Stamped(d) : stamp[c[1]] = c[2]
    BY DEF Stamped
  <2> QED BY <2>2, <2>5, <2>6, ClaimsTaken
<1>10. ASSUME NEW x \in Removers, RemoverStep(x) PROVE Safe'
  <2>0. rem[x].todo \subseteq Claims(x)
    BY DEF Claims
  <2>1. CASE RolloverNext(x)
    <3>1. UNCHANGED <<stamp, policies, attached, enf>>
      BY <2>1 DEF RolloverNext, table, iam
    <3>2. ASSUME NEW c \in rem[x].todo,
                 rem' = [rem EXCEPT ![x].pc = "list", ![x].todo = @ \ {c},
                                    ![x].row = c[1], ![x].pol = c[2]]
          PROVE  Safe'
      <4>1. rem \in [Removers -> RemoverStates] /\ c \in Rows \X Policies
        BY <2>0, ClaimsTyped DEF TypeInv, TypeOK
      <4>2. /\ rem'[x].pc = "list" /\ rem'[x].todo = rem[x].todo \ {c}
            /\ rem'[x].row = c[1] /\ rem'[x].pol = c[2]
            /\ \A y \in Removers \ {x} : rem'[y] = rem[y]
        BY <3>2, <4>1 DEF RemoverStates
      <4>3. c = <<c[1], c[2]>>
        BY <4>1
      <4>4. Claims(x)' \subseteq Claims(x)
        BY <2>0, <4>2, <4>3 DEF Claims
      <4> QED BY <3>1, <4>2, <4>3, <4>4, ClaimsShrink
    <3>3. CASE rem' = [rem EXCEPT ![x] = Resting]
      BY <3>1, <3>3, StopDropsClaims, ClaimsShrink
    <3> QED BY <2>1, <3>2, <3>3 DEF RolloverNext
  <2>2. CASE RemoveList(x) \/ RemoveDetach(x)
    <3>1. /\ UNCHANGED <<stamp, policies, enf>> /\ attached' \subseteq attached
          /\ rem[x].pc \notin {"idle", "next"}
          /\ RemGoto(x, "detach") \/ RemGoto(x, "delete") \/ GiveUp(x)
      BY <2>2 DEF RemoveList, RemoveDetach, table, iam
    <3>2. CASE GiveUp(x)
      BY <2>0, <3>1, <3>2, GiveUpDropsClaim, ClaimsShrink
    <3>3. ASSUME NEW pc \in {"detach", "delete"}, RemGoto(x, pc) PROVE Safe'
      <4>1. <<rem[x].row, rem[x].pol>> \notin rem[x].todo
        BY <3>1 DEF Safe, ClaimsDisjoint
      <4> QED BY <3>1, <3>3, <4>1, RemGotoMoves, ClaimsShrink
    <3> QED BY <3>1, <3>2, <3>3
  <2>3. CASE RemoveDelete(x)
    BY <2>3, DeleteSafe
  <2>4. CASE RemoveClear(x)
    BY <2>4, ClearKeepsRecord
  <2> QED BY <1>10, <2>1, <2>2, <2>3, <2>4 DEF RemoverStep
<1>11. ASSUME NEW x \in Removers, RemoveFault(x) \/ RemoveCrash(x) PROVE Safe'
  <2>1. /\ UNCHANGED <<stamp, policies, attached, enf>>
        /\ GiveUp(x) \/ rem' = [rem EXCEPT ![x] = Resting]
    BY <1>11 DEF RemoveFault, RemoveCrash, table, iam
  <2>2. rem[x].todo \subseteq Claims(x)
    BY DEF Claims
  <2>3. CASE GiveUp(x)
    BY <2>1, <2>2, <2>3, GiveUpDropsClaim, ClaimsShrink
  <2>4. CASE rem' = [rem EXCEPT ![x] = Resting]
    BY <2>1, <2>4, StopDropsClaims, ClaimsShrink
  <2> QED BY <2>1, <2>3, <2>4
<1> QED BY <1>1, <1>2, <1>3, <1>4, <1>5, <1>6, <1>7, <1>8, <1>9, <1>10, <1>11 DEF Next

(* The safety part of the invariant holds at first. *)
LEMMA SafeInit == Init => Safe
<1> SUFFICES ASSUME Init PROVE Safe
  OBVIOUS
<1>1. attached = {} /\ policies = {}
  BY DEF Init
<1>2. \A x \in Removers : Claims(x) = {} /\ rem[x].pc = "idle"
  BY DEF Init, Resting, Claims
<1>3. \A p \in Principals : enf[p].pc = "idle"
  BY DEF Init, Consumer
<1> QED BY <1>1, <1>2, <1>3
        DEF Safe, AttachedExist, ClaimsStamped, ClaimsDisjoint, AttachRecorded,
            ClearSafe, NoOrphanDeny

(* With removals of one deny serialized, the whole inductive invariant     *)
(* holds throughout, for any principals, targets and bounds.               *)
THEOREM Inductive == ASSUME Serialized PROVE Spec => []IInv
<1>1. Init => TypeInv /\ Safe
  BY TypeInvInit, SafeInit
<1>2. TypeInv /\ Safe /\ [Next]_vars => (TypeInv /\ Safe)'
  BY TypeInvStep, SafeStep
<1>3. TypeInv /\ Safe => IInv
  BY DEF IInv, Safe
<1> QED BY <1>1, <1>2, <1>3, PTL DEF Spec

(* No deny that IAM enforces is off the record: what rollover and release  *)
(* do to a row, and what the consumer attaches, always leaves a row that   *)
(* carries the policy, so a later removal finds it.                        *)
THEOREM NoOrphan == ASSUME Serialized PROVE Spec => []NoOrphanDeny
<1>1. IInv => NoOrphanDeny
  BY DEF IInv
<1> QED BY <1>1, Inductive, PTL

-------------------------------------------------------------------------------
(***************************************************************************)
(* Every behaviour is one of DenyRecord.                                   *)
(***************************************************************************)
(* Only four of the steps change what is attached or what is stamped.      *)
LEMMA VisibleSteps ==
  ASSUME [Next]_vars, TypeInv
  PROVE  \/ UNCHANGED <<stamp, attached>>
         \/ \E p \in Principals : EnforceStamp(p) \/ EnforceStampLost(p) \/ EnforceAttach(p)
         \/ \E x \in Removers : RemoveDetach(x) \/ RemoveClear(x)
<1> DEFINE Hidden == UNCHANGED <<stamp, attached>>
<1>1. CASE Tick \/ AdminPause \/ UNCHANGED vars
  BY <1>1 DEF Tick, AdminPause, vars, table, iam
<1>2. ASSUME NEW r \in Rows, MeterWrite(r) PROVE Hidden
  BY <1>2 DEF MeterWrite, iam
<1>3. ASSUME NEW k \in BudgetKeys, NEW b, AdminBudget(k, b) PROVE Hidden
  BY <1>3 DEF AdminBudget, table, iam
<1>4. ASSUME NEW p \in Principals, EnforceFault(p) \/ EnforceCrash(p) PROVE Hidden
  BY <1>4 DEF EnforceFault, EnforceCrash, table, iam
<1>5. ASSUME NEW p \in Principals, EnforcerStep(p)
      PROVE  Hidden \/ EnforceStamp(p) \/ EnforceAttach(p)
  BY <1>5 DEF EnforcerStep, EnforceSkip, EnforceDecide, EnforceCreate, EnforceGet,
              EnforceAttachStuck, EnforceCheckpoint, table, iam
<1>6. ASSUME NEW x \in Removers, NEW r \in Rows, ReleaseStart(x, r) PROVE Hidden
  BY <1>6 DEF ReleaseStart, table, iam
<1>7. ASSUME NEW x \in Removers, NEW d \in Periods,
             ScheduledRollover(x, d) \/ ManualRollover(x, d)
      PROVE  Hidden
  BY <1>7 DEF ScheduledRollover, ManualRollover, RolloverSnapshot, table, iam
<1>8. ASSUME NEW x \in Removers, RemoveFault(x) \/ RemoveCrash(x) PROVE Hidden
  BY <1>8 DEF RemoveFault, RemoveCrash, table, iam
<1>9. ASSUME NEW x \in Removers, RemoverStep(x)
      PROVE  Hidden \/ RemoveDetach(x) \/ RemoveClear(x)
  BY <1>9 DEF RemoverStep, RolloverNext, RemoveList, RemoveDelete, table, iam
<1> QED BY <1>1, <1>2, <1>3, <1>4, <1>5, <1>6, <1>7, <1>8, <1>9 DEF Next

(* Stamping a row records its deny.                                        *)
LEMMA StampRecords ==
  ASSUME TypeInv, NEW p \in Principals, enf[p].pc = "stamp", StampRow(p),
         UNCHANGED attached
  PROVE  Abstract!Next
<1> DEFINE row == enf[p].row  pol == enf[p].pol
<1>1. /\ row \in Rows /\ pol \in Policies /\ pol # NoPolicy
      /\ stamp \in [Rows -> Policies \union {NoPolicy}]
  BY NullAssumption DEF TypeInv, TypeOK, OwnWork
<1>2. stamp[row] = NoPolicy /\ stamp' = [stamp EXCEPT ![row] = pol]
  BY DEF StampRow
<1> HIDE DEF row, pol
<1>3. stamp'[row] = pol /\ \A r \in Rows \ {row} : stamp'[r] = stamp[r]
  BY <1>1, <1>2
<1>4. Recorded' = Recorded \union {pol}
  BY <1>1, <1>2, <1>3 DEF Recorded
<1>5. Abstract!Record(pol)
  BY <1>4 DEF Abstract!Record
<1> QED BY <1>1, <1>5 DEF Abstract!Next

(* Clearing the last row of a deny forgets it; it is in force no more.     *)
LEMMA ClearForgets ==
  ASSUME IInv, IInv', NEW x \in Removers, RemoveClear(x)
  PROVE  Abstract!Next \/ UNCHANGED <<attached, Recorded>>
<1> DEFINE row == rem[x].row  pol == rem[x].pol
<1>1. /\ row \in Rows /\ pol \in Policies /\ pol # NoPolicy /\ UNCHANGED attached
      /\ stamp \in [Rows -> Policies \union {NoPolicy}]
  BY HeldClaimed, NullAssumption DEF RemoveClear, iam, IInv, TypeInv, TypeOK
<1>2. CASE UNCHANGED table
  BY <1>1, <1>2 DEF table, Recorded
<1>3. CASE stamp[row] = pol /\ stamp' = [stamp EXCEPT ![row] = NoPolicy]
  <2> HIDE DEF row, pol
  <2>1. stamp'[row] = NoPolicy /\ \A r \in Rows \ {row} : stamp'[r] = stamp[r]
    BY <1>1, <1>3
  <2>2. CASE pol \in Recorded'
    <3>1. Recorded' = Recorded
      BY <1>1, <1>3, <2>1, <2>2 DEF Recorded
    <3> QED BY <1>1, <3>1
  <2>3. CASE pol \notin Recorded'
    <3>1. Recorded' = Recorded \ {pol}
      BY <1>1, <1>3, <2>1, <2>3 DEF Recorded
    <3>2. pol \notin attached'
      BY <1>1, <2>3 DEF IInv, NoOrphanDeny, Recorded
    <3>3. Abstract!Forget(pol)
      BY <1>1, <3>1, <3>2 DEF Abstract!Forget
    <3> QED BY <1>1, <3>3 DEF Abstract!Next
  <2> QED BY <2>2, <2>3
<1> QED BY <1>2, <1>3 DEF RemoveClear, row, pol

(* Every step of the life cycle is a step of DenyRecord or a stutter. *)
LEMMA AbstractStep ==
  ASSUME IInv, IInv', [Next]_vars
  PROVE  [Abstract!Next]_<<attached, Recorded>>
<1>0. TypeInv
  BY DEF IInv
<1>1. CASE UNCHANGED <<stamp, attached>>
  BY <1>1 DEF Recorded
<1>2. ASSUME NEW p \in Principals, EnforceStamp(p) \/ EnforceStampLost(p)
      PROVE  Abstract!Next \/ UNCHANGED <<attached, Recorded>>
  <2>1. /\ enf[p].pc = "stamp" /\ UNCHANGED attached
        /\ StampRow(p) \/ UNCHANGED stamp
    BY <1>2 DEF EnforceStamp, EnforceStampLost, table, iam
  <2>2. CASE StampRow(p)
    BY <1>0, <2>1, <2>2, StampRecords
  <2>3. CASE UNCHANGED stamp
    BY <2>1, <2>3 DEF Recorded
  <2> QED BY <2>1, <2>2, <2>3
<1>3. ASSUME NEW p \in Principals, EnforceAttach(p)
      PROVE  Abstract!Next \/ UNCHANGED <<attached, Recorded>>
  <2>1. /\ enf[p].pc = "attach" /\ UNCHANGED stamp
        /\ enf[p].row \in Rows /\ enf[p].pol \in Policies
    BY <1>0, <1>3 DEF EnforceAttach, table, TypeInv, OwnWork
  <2>2. Recorded' = Recorded
    BY <2>1 DEF Recorded
  <2>3. CASE UNCHANGED attached
    BY <2>2, <2>3
  <2>4. CASE enf[p].pol \in policies /\ attached' = attached \union {enf[p].pol}
    <3>1. stamp[enf[p].row] = enf[p].pol
      BY <2>1, <2>4 DEF IInv, AttachRecorded
    <3>2. enf[p].pol \in Recorded
      BY <2>1, <3>1, NullAssumption DEF Recorded
    <3>3. Abstract!Impose(enf[p].pol)
      BY <2>2, <2>4, <3>2 DEF Abstract!Impose
    <3> QED BY <2>1, <3>3 DEF Abstract!Next
  <2> QED BY <1>3, <2>3, <2>4 DEF EnforceAttach
<1>4. ASSUME NEW x \in Removers, RemoveDetach(x)
      PROVE  Abstract!Next
  <2>1. /\ rem[x].pol \in Policies /\ UNCHANGED stamp
        /\ attached' = attached \ {rem[x].pol}
    BY <1>0, <1>4, HeldClaimed DEF RemoveDetach, table
  <2>2. Recorded' = Recorded
    BY <2>1 DEF Recorded
  <2>3. Abstract!Lift(rem[x].pol)
    BY <2>1, <2>2 DEF Abstract!Lift
  <2> QED BY <2>1, <2>3 DEF Abstract!Next
<1>5. ASSUME NEW x \in Removers, RemoveClear(x)
      PROVE  Abstract!Next \/ UNCHANGED <<attached, Recorded>>
  BY <1>5, ClearForgets
<1> QED BY <1>0, <1>1, <1>2, <1>3, <1>4, <1>5, VisibleSteps

(* The detailed life cycle implements DenyRecord: a deny is recorded       *)
(* before it is imposed, and forgotten only once it is lifted.             *)
THEOREM Implements == ASSUME Serialized PROVE Spec => ImplementsDenyRecord
<1>1. Init => Abstract!Init
  BY DEF Init, Abstract!Init, Recorded
<1>2. IInv /\ IInv' /\ [Next]_vars => [Abstract!Next]_<<attached, Recorded>>
  BY AbstractStep
<1> QED BY <1>1, <1>2, Inductive, PTL DEF Spec, ImplementsDenyRecord, Abstract!Spec

-------------------------------------------------------------------------------
(***************************************************************************)
(* A stamp that settles is backed by an attached policy.                   *)
(***************************************************************************)
(* The policies a row may ever be enforced with.                           *)
Own(r) == {DenyPolicy(r, t) : t \in {r.target} \union
             {w \in {WildOf[r.target]} : Storable(r.principal, w)}}
OwnPolicies ==
  /\ \A k \in BudgetKeys : budget[k] # NoBudget => Storable(k[1], k[2])
  /\ \A r \in Rows : stamp[r] # NoPolicy => stamp[r] \in Own(r)
  /\ \A p \in Principals : enf[p].pc # "idle" => enf[p].pol \in Own(enf[p].row)

(* A remover deletes what exists, and detaches what is attached.           *)
Removing ==
  \A x \in Removers :
    /\ rem[x].pc \in {"detach", "delete"} => rem[x].pol \in policies
    /\ rem[x].pc = "detach" => rem[x].pol \in attached

(* A stamped row is backed by an attached policy, by the consumer about to *)
(* attach it, or by a remover on its way to clear the stamp.               *)
Attaching(r) == enf[r.principal].pc = "attach" /\ enf[r.principal].row = r
Clearing(r)  == \E x \in Removers : rem[x].pc \in {"delete", "clear"} /\ rem[x].row = r
Backed(r)    == stamp[r] \in attached \/ Attaching(r) \/ Clearing(r)
AllBacked ==
  used.crashes = 0 =>
    \A r \in Rows \ alarmed :
      stamp[r] # NoPolicy /\ AttachKind[r.principal] = "attach" => Backed(r)

(* Two rows never have a policy in common.                                 *)
LEMMA OwnApart ==
  ASSUME WildcardsApart, NEW r \in Rows, NEW q \in Rows, NEW a \in Own(r), a \in Own(q)
  PROVE  r = q
<1>1. /\ r.principal \in Principals /\ r.target \in Targets
      /\ q.principal \in Principals /\ q.target \in Targets
      /\ r = [principal |-> r.principal, target |-> r.target, period |-> r.period]
      /\ q = [principal |-> q.principal, target |-> q.target, period |-> q.period]
  BY DEF Rows
<1>2. WildOf[r.target] \in Wilds /\ WildOf[q.target] \in Wilds
  BY <1>1, TargetsAssumption
<1>3. PICK t \in {r.target} \union {w \in {WildOf[r.target]} : Storable(r.principal, w)} :
        a = DenyPolicy(r, t)
  BY DEF Own
<1>4. PICK u \in {q.target} \union {w \in {WildOf[q.target]} : Storable(q.principal, w)} :
        a = DenyPolicy(q, u)
  BY DEF Own
<1>5. r.principal = q.principal /\ r.period = q.period /\ t = u
  BY <1>3, <1>4 DEF DenyPolicy
<1>6. r.target = q.target
  BY <1>1, <1>2, <1>3, <1>4, <1>5 DEF WildcardsApart
<1>. QED BY <1>1, <1>5, <1>6

(* Nor, then, do two stamped rows.                                         *)
LEMMA StampsApart ==
  ASSUME WildcardsApart, OwnPolicies, NEW r \in Rows, NEW q \in Rows,
         stamp[r] # NoPolicy, stamp[r] = stamp[q]
  PROVE  r = q
BY OwnApart DEF OwnPolicies

(* What a deciding budget imposes is the row's own.                        *)
LEMMA DecidesOwn ==
  ASSUME TypeInv, OwnPolicies, NEW im \in Images, NEW rx \in BOOLEAN, NEW rw \in BOOLEAN,
         NEW t \in Deciding(im, rx, rw)
  PROVE  DenyPolicy(im.row, t) \in Own(im.row)
<1>1. im.row \in Rows /\ im.row.principal \in Principals /\ im.row.target \in Targets
  BY DEF Images, Rows
<1>2. WildOf[im.row.target] \in Wilds
  BY <1>1, TargetsAssumption
<1>3. CASE t = im.row.target
  BY <1>3 DEF Own
<1>4. CASE t = WildOf[im.row.target] /\ Breaches(budget[<<im.row.principal, t>>], im, rw)
  <2>1. <<im.row.principal, t>> \in BudgetKeys
    BY <1>1, <1>2, <1>4 DEF BudgetKeys, BudgetTargets
  <2>2. budget[<<im.row.principal, t>>] # NoBudget
    BY <1>4 DEF Breaches
  <2>3. Storable(im.row.principal, t)
    BY <2>1, <2>2 DEF OwnPolicies
  <2>. QED BY <1>4, <2>3 DEF Own
<1>. QED BY <1>3, <1>4 DEF Deciding

(* Consumers keep to own policies when they keep theirs, or decide.        *)
LEMMA OwnKeeps ==
  ASSUME OwnPolicies, UNCHANGED <<budget, stamp>>,
         \A p \in Principals : enf'[p].pc # "idle" =>
           \/ enf[p].pc # "idle" /\ enf'[p].row = enf[p].row /\ enf'[p].pol = enf[p].pol
           \/ enf'[p].pol \in Own(enf'[p].row)
  PROVE  OwnPolicies'
BY DEF OwnPolicies

(* A row is stamped with the policy of its consumer's decision.            *)
LEMMA StampOwn ==
  ASSUME TypeInv, OwnPolicies, UNCHANGED budget, NEW p \in Principals, enf[p].pc = "stamp",
         StampRow(p),
         enf'[p].pc # "idle" => enf'[p].row = enf[p].row /\ enf'[p].pol = enf[p].pol,
         \A q \in Principals \ {p} : enf'[q] = enf[q]
  PROVE  OwnPolicies'
<1>1. enf[p].row \in Rows /\ enf[p].pol \in Own(enf[p].row)
  BY DEF TypeInv, OwnWork, OwnPolicies
<1>2. stamp' = [stamp EXCEPT ![enf[p].row] = enf[p].pol]
  BY DEF StampRow
<1>3. \A r \in Rows : stamp'[r] = IF r = enf[p].row THEN enf[p].pol ELSE stamp[r]
  BY <1>1, <1>2 DEF TypeInv, TypeOK
<1>. QED BY <1>1, <1>3 DEF OwnPolicies

(* Every step keeps policies to their rows.                                *)
LEMMA OwnStep ==
  ASSUME TypeInv, OwnPolicies, [Next]_vars
  PROVE  OwnPolicies'
<1>1. CASE Tick \/ UNCHANGED vars
  BY <1>1, OwnKeeps DEF Tick, vars, table
<1>2. CASE AdminPause
  <2>1. ASSUME NEW p \in Principals, AtRest(p)
        PROVE  [enf[p] EXCEPT !.off = ~paused].pc = "idle"
    BY <2>1 DEF AtRest, TypeInv, TypeOK, ConsumerStates
  <2>2. \A p \in Principals :
          enf'[p] = IF AtRest(p) THEN [enf[p] EXCEPT !.off = ~paused] ELSE enf[p]
    BY <1>2, Zenon DEF AdminPause
  <2>3. UNCHANGED <<budget, stamp>>
    BY <1>2 DEF AdminPause, table
  <2>4. \A p \in Principals : enf'[p].pc # "idle" => enf'[p] = enf[p]
    BY <2>1, <2>2
  <2>. QED BY <2>3, <2>4, OwnKeeps
<1>3. ASSUME NEW r \in Rows, MeterWrite(r) PROVE OwnPolicies'
  BY <1>3, OwnKeeps DEF MeterWrite
<1>4. ASSUME NEW k \in BudgetKeys, NEW b, AdminBudget(k, b) PROVE OwnPolicies'
  <2>1. MaxUse.admin > 0 /\ UNCHANGED <<stamp, enf>>
    BY <1>4, BoundsAssumption DEF AdminBudget, Use, TypeInv, TypeOK, Counts, table
  <2>. QED BY <2>1 DEF OwnPolicies, Storable
<1>5. ASSUME NEW p \in Principals, EnforcerStep(p) PROVE OwnPolicies'
  <2>1. CASE EnforceSkip(p) \/ EnforceAttach(p) \/ EnforceAttachStuck(p)
    <3>1. UNCHANGED <<budget, stamp>> /\ Finish(p)
      BY <2>1 DEF EnforceSkip, EnforceAttach, EnforceAttachStuck, table
    <3>. QED BY <3>1, FinishIdle, OwnKeeps
  <2>2. CASE EnforceDecide(p)
    <3>1. PICK rx \in BOOLEAN, rw \in BOOLEAN : \E t \in Deciding(Record(p), rx, rw) :
            enf' = [enf EXCEPT ![p].pc = "create", ![p].row = Record(p).row,
                               ![p].pol = DenyPolicy(Record(p).row, t)]
      BY <2>2 DEF EnforceDecide
    <3>2. PICK t \in Deciding(Record(p), rx, rw) :
            enf' = [enf EXCEPT ![p].pc = "create", ![p].row = Record(p).row,
                               ![p].pol = DenyPolicy(Record(p).row, t)]
      BY <3>1
    <3>3. UNCHANGED <<budget, stamp>> /\ Record(p) \in Images
      BY <2>2, RecordTyped DEF EnforceDecide, TypeInv, table
    <3>4. /\ enf'[p].row = Record(p).row /\ enf'[p].pol = DenyPolicy(Record(p).row, t)
          /\ \A q \in Principals \ {p} : enf'[q] = enf[q]
      BY <3>2 DEF TypeInv, TypeOK, ConsumerStates
    <3>5. enf'[p].pol \in Own(enf'[p].row)
      BY <3>3, <3>4, DecidesOwn
    <3>. QED BY <3>3, <3>4, <3>5, OwnKeeps
  <2>3. CASE EnforceCreate(p) \/ EnforceGet(p)
    <3>1. /\ UNCHANGED <<budget, stamp>> /\ enf[p].pc # "idle"
          /\ Finish(p) \/ Goto(p, "get") \/ Goto(p, "stamp")
      BY <2>3 DEF EnforceCreate, EnforceGet, table
    <3>. QED BY <3>1, FinishIdle, GotoMoves, OwnKeeps
  <2>4. CASE EnforceStamp(p)
    <3>1. CASE StampRow(p) /\ Goto(p, "attach")
      BY <2>4, <3>1, GotoMoves, StampOwn DEF EnforceStamp
    <3>2. CASE Finish(p) /\ UNCHANGED stamp
      BY <2>4, <3>2, FinishIdle, OwnKeeps DEF EnforceStamp
    <3>. QED BY <2>4, <3>1, <3>2 DEF EnforceStamp, table
  <2>5. CASE EnforceCheckpoint(p)
    <3>1. UNCHANGED <<budget, stamp>>
      BY <2>5 DEF EnforceCheckpoint
    <3>2. enf'[p].pc = "idle" /\ \A q \in Principals \ {p} : enf'[q] = enf[q]
      BY <2>5 DEF EnforceCheckpoint, Consumer, TypeInv, TypeOK
    <3>. QED BY <3>1, <3>2, OwnKeeps
  <2>. QED BY <1>5, <2>1, <2>2, <2>3, <2>4, <2>5 DEF EnforcerStep
<1>6. ASSUME NEW p \in Principals, EnforceStampLost(p) PROVE OwnPolicies'
  BY <1>6, FinishIdle, StampOwn DEF EnforceStampLost
<1>7. ASSUME NEW p \in Principals, EnforceFault(p) PROVE OwnPolicies'
  BY <1>7, FinishIdle, OwnKeeps DEF EnforceFault, table
<1>8. ASSUME NEW p \in Principals, EnforceCrash(p) PROVE OwnPolicies'
  <2>1. UNCHANGED <<budget, stamp>>
    BY <1>8 DEF EnforceCrash
  <2>2. enf'[p].pc = "idle" /\ \A q \in Principals \ {p} : enf'[q] = enf[q]
    BY <1>8 DEF EnforceCrash, Consumer, TypeInv, TypeOK
  <2>. QED BY <2>1, <2>2, OwnKeeps
<1>9. ASSUME NEW x \in Removers, NEW r \in Rows, ReleaseStart(x, r) PROVE OwnPolicies'
  BY <1>9, OwnKeeps DEF ReleaseStart, table
<1>10. ASSUME NEW x \in Removers, NEW d \in Periods,
              ScheduledRollover(x, d) \/ ManualRollover(x, d)
       PROVE  OwnPolicies'
  BY <1>10, OwnKeeps DEF ScheduledRollover, ManualRollover, RolloverSnapshot, table
<1>11. ASSUME NEW x \in Removers, RemoverStep(x) PROVE OwnPolicies'
  <2>1. CASE RemoveClear(x)
    <3>1. UNCHANGED <<budget, enf>>
      BY <2>1 DEF RemoveClear
    <3>2. CASE UNCHANGED stamp
      BY <3>1, <3>2, OwnKeeps
    <3>3. CASE stamp' = [stamp EXCEPT ![rem[x].row] = NoPolicy]
      <4>1. \A r \in Rows : stamp'[r] # NoPolicy => stamp'[r] = stamp[r]
        BY <3>3 DEF TypeInv, TypeOK
      <4>. QED BY <3>1, <4>1 DEF OwnPolicies
    <3>. QED BY <2>1, <3>2, <3>3 DEF RemoveClear, table
  <2>2. CASE RolloverNext(x) \/ RemoveList(x) \/ RemoveDetach(x) \/ RemoveDelete(x)
    BY <2>2, OwnKeeps DEF RolloverNext, RemoveList, RemoveDetach, RemoveDelete, table
  <2>. QED BY <1>11, <2>1, <2>2 DEF RemoverStep
<1>12. ASSUME NEW x \in Removers, RemoveFault(x) \/ RemoveCrash(x) PROVE OwnPolicies'
  BY <1>12, OwnKeeps DEF RemoveFault, RemoveCrash, table
<1>. QED BY <1>1, <1>2, <1>3, <1>4, <1>5, <1>6, <1>7, <1>8, <1>9, <1>10, <1>11, <1>12 DEF Next

(* What removers and consumers are at, when a step leaves them alone.      *)
Unmoved(x) == /\ rem'[x].pc = rem[x].pc /\ rem'[x].row = rem[x].row /\ rem'[x].pol = rem[x].pol
Onward(x)  == /\ rem'[x].pc \notin {"detach", "delete"}
              /\ \A y \in Removers \ {x} : rem'[y] = rem[y]

(* Policies that stay and removers that start nothing.                     *)
LEMMA RemovingKeeps ==
  ASSUME Removing, policies \subseteq policies', attached \subseteq attached',
         \A x \in Removers :
           \/ rem'[x].pc = rem[x].pc /\ rem'[x].pol = rem[x].pol
           \/ rem'[x].pc \notin {"detach", "delete"}
  PROVE  Removing'
BY DEF Removing

(* What one remover takes away no other is about to take away.             *)
LEMMA NoRival ==
  ASSUME TypeInv, ClaimsDisjoint, NEW x \in Removers, NEW y \in Removers, x # y,
         rem[x].pc \notin {"idle", "next"}, rem[y].pc \notin {"idle", "next"}
  PROVE  rem[x].pol # rem[y].pol
<1>1. <<rem[x].row, rem[x].pol>> \in Claims(x) /\ <<rem[y].row, rem[y].pol>> \in Claims(y)
  BY HeldClaimed
<1>. QED BY <1>1 DEF ClaimsDisjoint

(* Every step keeps removers at work on what is there.                     *)
LEMMA RemovingStep ==
  ASSUME IInv, Removing, [Next]_vars
  PROVE  Removing'
<1>0. TypeInv /\ ClaimsDisjoint /\ AttachedExist
  BY DEF IInv
<1>1. CASE UNCHANGED <<rem, iam>>
  BY <1>1, RemovingKeeps DEF iam
<1>2. ASSUME NEW p \in Principals, EnforceCreate(p) \/ EnforceAttach(p) PROVE Removing'
  BY <1>2, RemovingKeeps DEF EnforceCreate, EnforceAttach
<1>3. ASSUME NEW x \in Removers, NEW r \in Rows, ReleaseStart(x, r) PROVE Removing'
  <2>1. UNCHANGED <<policies, attached>>
    BY <1>3 DEF ReleaseStart, iam
  <2>2. rem'[x].pc = "list" /\ \A y \in Removers \ {x} : rem'[y] = rem[y]
    BY <1>0, <1>3 DEF ReleaseStart, TypeInv, TypeOK
  <2>. QED BY <2>1, <2>2, RemovingKeeps
<1>4. ASSUME NEW x \in Removers, NEW d \in Periods,
             ScheduledRollover(x, d) \/ ManualRollover(x, d)
      PROVE  Removing'
  <2> DEFINE start == [Resting EXCEPT !.pc = "next", !.mode = "rollover", !.todo = Stamped(d)]
  <2>1. start.pc = "next"
    BY DEF Resting
  <2>2. UNCHANGED <<policies, attached>> /\ rem' = [rem EXCEPT ![x] = start]
    BY <1>4 DEF ScheduledRollover, ManualRollover, RolloverSnapshot, iam
  <2> HIDE DEF start
  <2>3. rem'[x].pc = "next" /\ \A y \in Removers \ {x} : rem'[y] = rem[y]
    BY <1>0, <2>1, <2>2 DEF TypeInv, TypeOK
  <2>. QED BY <2>2, <2>3, RemovingKeeps
<1>5. ASSUME NEW x \in Removers, RolloverNext(x) PROVE Removing'
  <2>1. UNCHANGED <<policies, attached>>
    BY <1>5 DEF RolloverNext, iam
  <2>2. CASE rem' = [rem EXCEPT ![x] = Resting]
    BY <1>0, <2>1, <2>2, StopDropsClaims, RemovingKeeps
  <2>3. ASSUME NEW c, rem' = [rem EXCEPT ![x].pc = "list", ![x].todo = @ \ {c},
                                         ![x].row = c[1], ![x].pol = c[2]]
        PROVE  Removing'
    <3>1. rem'[x].pc = "list" /\ \A y \in Removers \ {x} : rem'[y] = rem[y]
      BY <1>0, <2>3 DEF TypeInv, TypeOK, RemoverStates
    <3>. QED BY <2>1, <3>1, RemovingKeeps
  <2>. QED BY <1>5, <2>2, <2>3 DEF RolloverNext
<1>6. ASSUME NEW x \in Removers, RemoveList(x) PROVE Removing'
  <2>1. UNCHANGED <<policies, attached>>
    BY <1>6 DEF RemoveList, iam
  <2>2. CASE GiveUp(x)
    BY <1>0, <2>1, <2>2, GiveUpDropsClaim, RemovingKeeps
  <2>3. CASE rem[x].pol \in attached /\ RemGoto(x, "detach")
    BY <1>0, <2>1, <2>3, RemGotoMoves DEF Removing, AttachedExist
  <2>4. CASE rem[x].pol \in policies \ attached /\ RemGoto(x, "delete")
    BY <1>0, <2>1, <2>4, RemGotoMoves DEF Removing
  <2>. QED BY <1>6, <2>2, <2>3, <2>4 DEF RemoveList
<1>7. ASSUME NEW x \in Removers, RemoveDetach(x) PROVE Removing'
  <2>1. /\ rem[x].pc = "detach" /\ UNCHANGED policies
        /\ attached' = attached \ {rem[x].pol}
        /\ RemGoto(x, "delete") \/ GiveUp(x)
    BY <1>7 DEF RemoveDetach
  <2>2. /\ rem'[x].pc # "detach" /\ (rem'[x].pc = "delete" => rem'[x].pol = rem[x].pol)
        /\ \A y \in Removers \ {x} : rem'[y] = rem[y]
    BY <1>0, <2>1, RemGotoMoves, GiveUpDropsClaim
  <2>3. \A y \in Removers \ {x} : rem[y].pc = "detach" => rem[y].pol # rem[x].pol
    BY <1>0, <2>1, NoRival
  <2>. QED BY <2>1, <2>2, <2>3 DEF Removing
<1>8. ASSUME NEW x \in Removers, RemoveDelete(x) PROVE Removing'
  <2>1. /\ rem[x].pc = "delete" /\ UNCHANGED attached
        /\ policies \ {rem[x].pol} \subseteq policies'
        /\ RemGoto(x, "clear") \/ GiveUp(x)
    BY <1>8 DEF RemoveDelete
  <2>2. Onward(x)
    BY <1>0, <2>1, RemGotoMoves, GiveUpDropsClaim DEF Onward
  <2>3. \A y \in Removers \ {x} : rem[y].pc \in {"detach", "delete"} => rem[y].pol # rem[x].pol
    BY <1>0, <2>1, NoRival
  <2>. QED BY <2>1, <2>2, <2>3 DEF Removing, Onward
<1>9. ASSUME NEW x \in Removers, RemoveClear(x) \/ RemoveFault(x) \/ RemoveCrash(x)
      PROVE  Removing'
  <2>1. /\ UNCHANGED <<policies, attached>>
        /\ GiveUp(x) \/ rem' = [rem EXCEPT ![x] = Resting]
    BY <1>9 DEF RemoveClear, RemoveFault, RemoveCrash, iam
  <2>. QED BY <1>0, <2>1, GiveUpDropsClaim, StopDropsClaims, RemovingKeeps
<1>10. CASE Tick \/ AdminPause \/ UNCHANGED vars
  BY <1>1, <1>10 DEF Tick, AdminPause, vars
<1>11. ASSUME NEW r \in Rows, MeterWrite(r) PROVE Removing'
  BY <1>1, <1>11 DEF MeterWrite
<1>12. ASSUME NEW k \in BudgetKeys, NEW b, AdminBudget(k, b) PROVE Removing'
  BY <1>1, <1>12 DEF AdminBudget
<1>13. ASSUME NEW p \in Principals,
              EnforcerStep(p) \/ EnforceStampLost(p) \/ EnforceFault(p) \/ EnforceCrash(p)
       PROVE  Removing'
  BY <1>1, <1>2, <1>13
     DEF EnforcerStep, EnforceSkip, EnforceDecide, EnforceGet, EnforceStamp, EnforceAttachStuck,
         EnforceCheckpoint, EnforceStampLost, EnforceFault, EnforceCrash, iam
<1>. QED BY <1>3, <1>4, <1>5, <1>6, <1>7, <1>8, <1>9, <1>10, <1>11, <1>12, <1>13
         DEF Next, RemoverStep

(* Nothing that backs a stamp is taken away.                               *)
LEMMA BackedKeeps ==
  ASSUME TypeInv, AllBacked, UNCHANGED stamp, attached \subseteq attached',
         alarmed \subseteq alarmed', used'.crashes = 0 => used.crashes = 0,
         \A p \in Principals : enf[p].pc = "attach" => enf'[p] = enf[p],
         \A x \in Removers : rem[x].pc \in {"delete", "clear"} => Unmoved(x)
  PROVE  AllBacked'
<1>1. \A r \in Rows : r.principal \in Principals
  BY DEF Rows
<1>. QED BY <1>1 DEF AllBacked, Backed, Attaching, Clearing, Unmoved

(* Every step without a fault keeps stamps backed.                         *)
LEMMA BackedStep ==
  ASSUME NoFaults, WildcardsApart, IInv, OwnPolicies, Removing, AllBacked, [Next]_vars
  PROVE  AllBacked'
<1>0. /\ TypeInv /\ ClaimsDisjoint /\ ClaimsStamped /\ AttachRecorded
      /\ stamp \in [Rows -> Policies \union {NoPolicy}]
      /\ \A r \in Rows : r.principal \in Principals
      /\ used \in Counts /\ NoPolicy \notin Policies
  BY NullAssumption DEF IInv, TypeInv, TypeOK, Rows
<1> DEFINE Still == UNCHANGED rem
           Calm(p) == enf[p].pc # "attach" /\ \A q \in Principals \ {p} : enf'[q] = enf[q]
<1>1. CASE Tick \/ AdminPause \/ UNCHANGED vars
  <2>1. UNCHANGED <<stamp, attached, alarmed, used.crashes, rem>>
    BY <1>0, <1>1 DEF Tick, AdminPause, Use, vars, table, iam, Counts
  <2>2. \A p \in Principals : enf[p].pc = "attach" => enf'[p] = enf[p]
    <3>1. CASE UNCHANGED enf
      BY <3>1
    <3>2. CASE AdminPause
      <4>1. \A p \in Principals :
              enf'[p] = IF AtRest(p) THEN [enf[p] EXCEPT !.off = ~paused] ELSE enf[p]
        BY <3>2, Zenon DEF AdminPause
      <4>. QED BY <4>1 DEF AtRest
    <3>. QED BY <1>1, <3>1, <3>2 DEF Tick, vars
  <2>. QED BY <1>0, <2>1, <2>2, BackedKeeps DEF Unmoved
<1>2. ASSUME NEW r \in Rows, MeterWrite(r) PROVE AllBacked'
  BY <1>0, <1>2, BackedKeeps DEF MeterWrite, iam, Unmoved
<1>3. ASSUME NEW k \in BudgetKeys, NEW b, AdminBudget(k, b) PROVE AllBacked'
  BY <1>0, <1>3, BackedKeeps DEF AdminBudget, Use, Counts, table, iam, Unmoved
<1>4. ASSUME NEW p \in Principals, UNCHANGED <<stamp, attached, rem, used>>,
             alarmed \subseteq alarmed', Calm(p)
      PROVE  AllBacked'
  BY <1>0, <1>4, BackedKeeps DEF Unmoved
<1>5. ASSUME NEW p \in Principals,
             EnforceSkip(p) \/ EnforceDecide(p) \/ EnforceCreate(p) \/ EnforceGet(p)
               \/ EnforceCheckpoint(p)
      PROVE  AllBacked'
  <2>1. UNCHANGED <<stamp, attached, rem, used, alarmed>> /\ enf[p].pc # "attach"
    BY <1>5 DEF EnforceSkip, EnforceDecide, EnforceCreate, EnforceGet, EnforceCheckpoint, table, iam
  <2>2. \A q \in Principals \ {p} : enf'[q] = enf[q]
    <3>1. CASE EnforceDecide(p) \/ EnforceCheckpoint(p)
      BY <1>0, <3>1 DEF EnforceDecide, EnforceCheckpoint, TypeInv, TypeOK
    <3>2. CASE EnforceSkip(p) \/ EnforceCreate(p) \/ EnforceGet(p)
      BY <1>0, <3>2, FinishIdle, GotoMoves DEF EnforceSkip, EnforceCreate, EnforceGet
    <3>. QED BY <1>5, <3>1, <3>2
  <2>. QED BY <1>4, <2>1, <2>2
<1>6. ASSUME NEW p \in Principals, EnforceStamp(p) PROVE AllBacked'
  <2>1. UNCHANGED <<attached, rem, used>> /\ enf[p].pc = "stamp"
    BY <1>6 DEF EnforceStamp, iam
  <2>2. CASE Finish(p) /\ UNCHANGED <<stamp, alarmed>>
    BY <1>0, <1>4, <2>1, <2>2, FinishIdle
  <2>3. CASE StampRow(p) /\ Goto(p, "attach")
    <3>1. /\ enf[p].row \in Rows /\ enf[p].row.principal = p
          /\ stamp' = [stamp EXCEPT ![enf[p].row] = enf[p].pol]
          /\ alarmed' = alarmed \ {enf[p].row}
      BY <1>0, <2>1, <2>3 DEF StampRow, TypeInv, OwnWork
    <3>2. /\ enf'[p].pc = "attach" /\ enf'[p].row = enf[p].row
          /\ \A q \in Principals \ {p} : enf'[q] = enf[q]
      BY <1>0, <2>3, GotoMoves
    <3>3. \A r \in Rows \ {enf[p].row} : stamp'[r] = stamp[r]
      BY <1>0, <3>1
    <3>4. Attaching(enf[p].row)'
      BY <3>1, <3>2 DEF Attaching
    <3>5. ASSUME NEW r \in Rows \ {enf[p].row}, Backed(r) PROVE Backed(r)'
      <4>1. stamp'[r] = stamp[r]
        BY <3>3
      <4>2. Attaching(r) => r.principal # p
        BY <2>1 DEF Attaching
      <4>3. Attaching(r) => Attaching(r)'
        BY <1>0, <3>2, <4>2 DEF Attaching
      <4>4. Clearing(r) => Clearing(r)'
        BY <2>1 DEF Clearing
      <4>. QED BY <2>1, <3>5, <4>1, <4>3, <4>4 DEF Backed
    <3>6. ASSUME used'.crashes = 0, NEW r \in Rows \ alarmed', stamp'[r] # NoPolicy,
                 AttachKind[r.principal] = "attach"
          PROVE  Backed(r)'
      <4>1. CASE r = enf[p].row
        BY <3>1, <3>2, <4>1 DEF Backed, Attaching
      <4>2. CASE r # enf[p].row
        BY <2>1, <3>1, <3>3, <3>5, <3>6, <4>2 DEF AllBacked
      <4>. QED BY <4>1, <4>2
    <3>. QED BY <3>6 DEF AllBacked
  <2>. QED BY <1>6, <2>2, <2>3 DEF EnforceStamp, table
<1>7. ASSUME NEW p \in Principals, EnforceAttach(p) \/ EnforceAttachStuck(p) PROVE AllBacked'
  <2>1. /\ UNCHANGED <<stamp, rem, used>> /\ enf[p].pc = "attach"
        /\ attached \subseteq attached' /\ alarmed \subseteq alarmed'
        /\ enf[p].row \in Rows /\ enf[p].row.principal = p
    BY <1>0, <1>7 DEF EnforceAttach, EnforceAttachStuck, table, iam, TypeInv, OwnWork
  <2>2. \A q \in Principals \ {p} : enf'[q] = enf[q]
    BY <1>0, <1>7, FinishIdle DEF EnforceAttach, EnforceAttachStuck
  <2>3. ASSUME enf[p].row \notin alarmed', AttachKind[p] = "attach"
        PROVE  stamp[enf[p].row] \in attached'
    <3>1. enf[p].pol \in policies /\ attached' = attached \union {enf[p].pol}
      BY <1>7, <2>3 DEF EnforceAttach, EnforceAttachStuck
    <3>. QED BY <1>0, <2>1, <3>1 DEF AttachRecorded
  <2>4. ASSUME used'.crashes = 0, NEW r \in Rows \ alarmed', stamp'[r] # NoPolicy,
               AttachKind[r.principal] = "attach"
        PROVE  Backed(r)'
    <3>1. Backed(r)
      BY <2>1, <2>4 DEF AllBacked
    <3>2. CASE r = enf[p].row
      BY <2>1, <2>3, <2>4, <3>2 DEF Backed
    <3>3. CASE r # enf[p].row
      <4>1. Attaching(r) => r.principal # p
        BY <3>3 DEF Attaching
      <4>2. Attaching(r) => Attaching(r)'
        BY <1>0, <2>2, <4>1 DEF Attaching
      <4>3. Clearing(r) => Clearing(r)'
        BY <2>1 DEF Clearing
      <4>. QED BY <2>1, <3>1, <4>2, <4>3 DEF Backed
    <3>. QED BY <3>2, <3>3
  <2>. QED BY <2>4 DEF AllBacked
<1>8. ASSUME NEW p \in Principals, EnforceStampLost(p) \/ EnforceFault(p) PROVE FALSE
  BY <1>0, <1>8, BoundsAssumption DEF EnforceStampLost, EnforceFault, Use, NoFaults, Counts
<1>9. ASSUME Use("crashes") PROVE AllBacked'
  <2>1. used'.crashes # 0
    BY <1>0, <1>9 DEF Use, Counts
  <2>. QED BY <2>1 DEF AllBacked
<1>10. ASSUME NEW x \in Removers, UNCHANGED <<stamp, attached, enf, alarmed>>,
              used'.crashes = used.crashes, rem[x].pc \notin {"delete", "clear"},
              \A y \in Removers \ {x} : rem'[y] = rem[y]
       PROVE  AllBacked'
  BY <1>0, <1>10, BackedKeeps DEF Unmoved
<1>11. ASSUME NEW x \in Removers, NEW r \in Rows, ReleaseStart(x, r) PROVE AllBacked'
  <2>1. UNCHANGED <<stamp, attached, enf, alarmed>> /\ used'.crashes = used.crashes
    BY <1>0, <1>11 DEF ReleaseStart, Use, Counts, table, iam
  <2>2. rem[x].pc = "idle" /\ \A y \in Removers \ {x} : rem'[y] = rem[y]
    BY <1>0, <1>11 DEF ReleaseStart, TypeInv, TypeOK
  <2>. QED BY <1>10, <2>1, <2>2
<1>12. ASSUME NEW x \in Removers, NEW d \in Periods,
              ScheduledRollover(x, d) \/ ManualRollover(x, d)
       PROVE  AllBacked'
  <2>1. UNCHANGED <<stamp, attached, enf, alarmed>> /\ used'.crashes = used.crashes
    BY <1>0, <1>12 DEF ScheduledRollover, ManualRollover, RolloverSnapshot, Use, Counts, table, iam
  <2>2. rem[x].pc = "idle" /\ \A y \in Removers \ {x} : rem'[y] = rem[y]
    BY <1>0, <1>12 DEF ScheduledRollover, ManualRollover, RolloverSnapshot, TypeInv, TypeOK
  <2>. QED BY <1>10, <2>1, <2>2
<1>13. ASSUME NEW x \in Removers, RolloverNext(x) \/ RemoveList(x) PROVE AllBacked'
  <2>1. UNCHANGED <<stamp, attached, enf, alarmed, used>> /\ rem[x].pc \in {"next", "list"}
    BY <1>13 DEF RolloverNext, RemoveList, table, iam
  <2>2. \A y \in Removers \ {x} : rem'[y] = rem[y]
    <3>1. CASE RolloverNext(x)
      BY <1>0, <3>1 DEF RolloverNext, TypeInv, TypeOK
    <3>2. CASE RemoveList(x)
      BY <1>0, <3>2, RemGotoMoves, GiveUpDropsClaim DEF RemoveList
    <3>. QED BY <1>13, <3>1, <3>2
  <2>. QED BY <1>10, <2>1, <2>2
<1>14. ASSUME NEW x \in Removers, rem[x].pc \in {"detach", "delete", "clear"}
       PROVE  /\ rem[x].row \in Rows /\ rem[x].pol # NoPolicy
              /\ stamp[rem[x].row] = rem[x].pol
              /\ \A r \in Rows : stamp[r] = rem[x].pol => r = rem[x].row
  <2>1. /\ rem[x].row \in Rows /\ rem[x].pol \in Policies
        /\ <<rem[x].row, rem[x].pol>> \in Claims(x)
    BY <1>0, <1>14, HeldClaimed
  <2>2. stamp[rem[x].row] = rem[x].pol
    BY <2>1, <1>0 DEF ClaimsStamped
  <2>. QED BY <1>0, <2>1, <2>2, StampsApart
<1>15. ASSUME NEW x \in Removers, UNCHANGED <<enf, alarmed, used>>,
              \A y \in Removers \ {x} : rem'[y] = rem[y],
              NEW r \in Rows, stamp'[r] = stamp[r], stamp[r] \in attached => stamp[r] \in attached',
              rem[x].pc \in {"delete", "clear"} => rem[x].row # r,
              Backed(r)
       PROVE  Backed(r)'
  <2>1. Attaching(r) => Attaching(r)'
    BY <1>15 DEF Attaching
  <2>2. Clearing(r) => Clearing(r)'
    BY <1>15 DEF Clearing
  <2>. QED BY <1>15, <2>1, <2>2 DEF Backed
<1>16. ASSUME NEW x \in Removers, RemoveDetach(x) PROVE AllBacked'
  <2>1. /\ rem[x].pc = "detach" /\ UNCHANGED <<stamp, enf, alarmed, used>>
        /\ attached' = attached \ {rem[x].pol}
    BY <1>16 DEF RemoveDetach, table
  <2>2. /\ rem'[x].pc = "delete" /\ rem'[x].row = rem[x].row
        /\ \A y \in Removers \ {x} : rem'[y] = rem[y]
    BY <1>0, <1>16, <2>1, RemGotoMoves DEF Removing, RemoveDetach
  <2>3. /\ rem[x].row \in Rows
        /\ \A r \in Rows : stamp[r] = rem[x].pol => r = rem[x].row
    BY <1>14, <2>1
  <2>4. ASSUME used'.crashes = 0, NEW r \in Rows \ alarmed', stamp'[r] # NoPolicy,
               AttachKind[r.principal] = "attach"
        PROVE  Backed(r)'
    <3>1. Backed(r)
      BY <2>1, <2>4 DEF AllBacked
    <3>2. CASE r = rem[x].row
      BY <2>2, <3>2 DEF Backed, Clearing
    <3>3. CASE r # rem[x].row
      BY <1>15, <2>1, <2>2, <2>3, <3>1, <3>3
    <3>. QED BY <3>2, <3>3
  <2>. QED BY <2>4 DEF AllBacked
<1>17. ASSUME NEW x \in Removers, RemoveDelete(x) PROVE AllBacked'
  <2>1. rem[x].pc = "delete" /\ UNCHANGED <<stamp, enf, alarmed, used, attached>>
    BY <1>17 DEF RemoveDelete, table
  <2>2. stamp[rem[x].row] = rem[x].pol /\ rem[x].pol \in policies /\ rem[x].row \in Rows
    BY <1>14, <2>1 DEF Removing
  <2>3. /\ \A y \in Removers \ {x} : rem'[y] = rem[y]
        /\ \/ rem'[x].pc = "clear" /\ rem'[x].row = rem[x].row
           \/ rem[x].pol \in attached
    BY <1>0, <1>17, <2>2, RemGotoMoves, GiveUpDropsClaim DEF RemoveDelete
  <2>4. ASSUME used'.crashes = 0, NEW r \in Rows \ alarmed', stamp'[r] # NoPolicy,
               AttachKind[r.principal] = "attach"
        PROVE  Backed(r)'
    <3>1. Backed(r)
      BY <2>1, <2>4 DEF AllBacked
    <3>2. CASE r = rem[x].row
      BY <2>1, <2>2, <2>3, <3>2 DEF Backed, Clearing
    <3>3. CASE r # rem[x].row
      BY <1>15, <2>1, <2>3, <3>1, <3>3
    <3>. QED BY <3>2, <3>3
  <2>. QED BY <2>4 DEF AllBacked
<1>18. ASSUME NEW x \in Removers, RemoveClear(x) PROVE AllBacked'
  <2>1. rem[x].pc = "clear" /\ UNCHANGED <<enf, alarmed, used, attached>>
    BY <1>18 DEF RemoveClear, iam
  <2>2. stamp[rem[x].row] = rem[x].pol /\ rem[x].row \in Rows
    BY <1>14, <2>1
  <2>3. stamp' = [stamp EXCEPT ![rem[x].row] = NoPolicy]
    BY <1>18, <2>2 DEF RemoveClear
  <2>4. \A y \in Removers \ {x} : rem'[y] = rem[y]
    BY <1>0, <1>18, GiveUpDropsClaim DEF RemoveClear
  <2>5. ASSUME used'.crashes = 0, NEW r \in Rows \ alarmed', stamp'[r] # NoPolicy,
               AttachKind[r.principal] = "attach"
        PROVE  Backed(r)'
    <3>1. r # rem[x].row /\ stamp'[r] = stamp[r]
      BY <1>0, <2>2, <2>3, <2>5
    <3>2. Backed(r)
      BY <2>1, <2>5, <3>1 DEF AllBacked
    <3>. QED BY <1>15, <2>1, <2>4, <3>1, <3>2
  <2>. QED BY <2>5 DEF AllBacked
<1>19. ASSUME NEW x \in Removers, RemoveFault(x) PROVE FALSE
  BY <1>0, <1>19, BoundsAssumption DEF RemoveFault, Use, NoFaults, Counts
<1>20. ASSUME NEW p \in Principals, EnforceCrash(p) PROVE AllBacked'
  BY <1>9, <1>20 DEF EnforceCrash
<1>21. ASSUME NEW x \in Removers, RemoveCrash(x) PROVE AllBacked'
  BY <1>9, <1>21 DEF RemoveCrash
<1>. QED BY <1>1, <1>2, <1>3, <1>5, <1>6, <1>7, <1>8, <1>11, <1>12, <1>13, <1>16, <1>17, <1>18,
            <1>19, <1>20, <1>21
         DEF Next, EnforcerStep, RemoverStep

(* At first nothing is stamped and nobody is at work.                      *)
LEMMA OwnInit == Init => OwnPolicies /\ Removing /\ AllBacked
<1>. SUFFICES ASSUME Init PROVE OwnPolicies /\ Removing /\ AllBacked
  OBVIOUS
<1>1. /\ budget \in StartBudgets /\ \A r \in Rows : stamp[r] = NoPolicy
      /\ \A p \in Principals : enf[p].pc = "idle"
      /\ \A x \in Removers : rem[x].pc = "idle"
  BY DEF Init, Consumer, Resting
<1>2. \A k \in BudgetKeys : k = <<k[1], k[2]>>
  BY DEF BudgetKeys
<1>3. \A k \in BudgetKeys : budget[k] # NoBudget => Storable(k[1], k[2])
  BY <1>1, <1>2 DEF Storable
<1>. QED BY <1>1, <1>3 DEF OwnPolicies, Removing, AllBacked

(* NoSilentInertStamp for any principals, targets and removers and any     *)
(* edits: as long as no call to AWS fails for good and no wildcard budget  *)
(* covers two targets, a stamp that settles is backed by an attached       *)
(* policy or has raised its alarm.                                         *)
THEOREM NoInertStamp ==
  ASSUME Serialized, NoFaults, WildcardsApart
  PROVE  Spec => []NoSilentInertStamp
<1>1. Init => OwnPolicies /\ Removing /\ AllBacked
  BY OwnInit
<1>2. IInv /\ OwnPolicies /\ Removing /\ AllBacked /\ [Next]_vars
        => (OwnPolicies /\ Removing /\ AllBacked)'
  BY OwnStep, RemovingStep, BackedStep DEF IInv
<1>3. AllBacked => NoSilentInertStamp
  <2>. SUFFICES ASSUME AllBacked, Settled PROVE NoSilentInertStamp
    BY DEF NoSilentInertStamp
  <2>1. \A r \in Rows : r.principal \in Principals
    BY DEF Rows
  <2>2. \A r \in Rows : Backed(r) => stamp[r] \in attached
    BY <2>1 DEF Backed, Attaching, Clearing, Settled
  <2>. QED BY <2>2 DEF AllBacked, NoSilentInertStamp
<1>4. Spec => []IInv
  BY Inductive
<1>. QED BY <1>1, <1>2, <1>3, <1>4, PTL DEF Spec

-------------------------------------------------------------------------------
(***************************************************************************)
(* A row that settles over its limit is stamped.                           *)
(***************************************************************************)
(* The unstamped image of a row with its spend is in a shard, from n on.   *)
Ahead(st, r, s, n) ==
  \E i \in n .. Len(st) : st[i] = [row |-> r, spend |-> s, stamped |-> FALSE]

(* Consumers run unpaused, inside their shard, with a redelivery left.     *)
Reading(p) ==
  /\ ~enf[p].off /\ enf[p].retries <= used.crashes
  /\ enf[p].cursor <= Len(stream[p])
  /\ enf[p].pc # "idle" => enf[p].cursor < Len(stream[p]) /\ Record(p).row = enf[p].row

(* A consumer whose work will come to nothing, because the row was cleared *)
(* meanwhile, still has the image of that clearing before it.              *)
Vain(p) == /\ enf[p].pc = "attach" \/ (enf[p].pc = "get" /\ enf[p].pol \notin policies)
           /\ stamp[enf[p].row] = NoPolicy
Redone(p) ==
  Vain(p) => Ahead(stream[p], enf[p].row, spend[enf[p].row], enf[p].cursor + 2)

(* An unstamped row over its limit has an image that nobody read yet.      *)
Over(r, b) == Limiting(b) /\ spend[r] >= b.blockAt
OverLimit(r) == \E t \in {r.target, WildOf[r.target]} : Over(r, budget[<<r.principal, t>>])
Breached(r) ==
  stamp[r] = NoPolicy /\ spend[r] > 0 /\ AttachKind[r.principal] # "none" /\ OverLimit(r)
Seen(r) ==
  Breached(r) => Ahead(stream[r.principal], r, spend[r], enf[r.principal].cursor + 1)

Heard ==
  /\ ~paused
  /\ \A p \in Principals : Reading(p) /\ Redone(p)
  /\ \A r \in Rows : Seen(r)

(* A shard that grows keeps its records in place.                          *)
Grows(p) == /\ Len(stream[p]) \in Nat /\ Len(stream'[p]) \in Nat
            /\ Len(stream[p]) <= Len(stream'[p])
            /\ \A i \in 1..Len(stream[p]) : stream'[p][i] = stream[p][i]

(* A write to a row grows the shards, and is the last record of its own.   *)
LEMMA PublishGrows ==
  ASSUME TypeOK, NEW r \in Rows, NEW s \in Nat, NEW st, Publish(r, s, st)
  PROVE  /\ \A p \in Principals : Grows(p)
         /\ Len(stream'[r.principal]) = Len(stream[r.principal]) + 1
         /\ stream'[r.principal][Len(stream[r.principal]) + 1]
              = [row |-> r, spend |-> s, stamped |-> st # NoPolicy]
<1> DEFINE im == [row |-> r, spend |-> s, stamped |-> st # NoPolicy]
           old == stream[r.principal]
<1>1. /\ r.principal \in Principals /\ DOMAIN stream = Principals
      /\ \A p \in Principals : stream[p] \in Seq(ImagesOf(p)) /\ Len(stream[p]) \in Nat
  BY DEF Rows, TypeOK
<1>2. stream' = [stream EXCEPT ![r.principal] = Append(old, im)]
  BY DEF Publish
<1>3. im \in ImagesOf(r.principal)
  BY DEF ImagesOf, Images
<1>. HIDE DEF im
<1>4. /\ Len(Append(old, im)) = Len(old) + 1
      /\ \A i \in 1..Len(old) : Append(old, im)[i] = old[i]
      /\ Append(old, im)[Len(old) + 1] = im
  BY <1>1, <1>3, AppendProperties
<1>. HIDE DEF old
<1>5. stream'[r.principal] = Append(old, im) /\ \A p \in Principals \ {r.principal} : stream'[p] = stream[p]
  BY <1>1, <1>2
<1>6. ASSUME NEW p \in Principals PROVE Grows(p)
  <2>1. CASE p = r.principal
    BY <1>1, <1>4, <1>5, <2>1 DEF Grows, old
  <2>2. CASE p # r.principal
    BY <1>1, <1>5, <2>2 DEF Grows
  <2>. QED BY <2>1, <2>2
<1>. QED BY <1>4, <1>5, <1>6 DEF old, im

(* What is ahead in a shard stays ahead while it grows.                    *)
LEMMA AheadGrows ==
  ASSUME NEW p, Grows(p), NEW r, NEW s, NEW n \in Nat, n > 0, Ahead(stream[p], r, s, n)
  PROVE  Ahead(stream'[p], r, s, n)
<1>1. PICK i \in n .. Len(stream[p]) : stream[p][i] = [row |-> r, spend |-> s, stamped |-> FALSE]
  BY DEF Ahead
<1>2. i \in 1..Len(stream[p]) /\ i \in n .. Len(stream'[p])
  BY DEF Grows
<1>3. stream'[p][i] = stream[p][i]
  BY <1>2 DEF Grows
<1>. QED BY <1>1, <1>2, <1>3 DEF Ahead

(* What is not the record the consumer is at is ahead of it.               *)
LEMMA AheadBeyond ==
  ASSUME NEW st, Len(st) \in Nat, NEW r, NEW s, NEW n \in Nat, Ahead(st, r, s, n),
         st[n] # [row |-> r, spend |-> s, stamped |-> FALSE]
  PROVE  Ahead(st, r, s, n + 1)
<1>1. PICK i \in n .. Len(st) : st[i] = [row |-> r, spend |-> s, stamped |-> FALSE]
  BY DEF Ahead
<1>2. i \in (n + 1) .. Len(st)
  BY <1>1
<1>. QED BY <1>1, <1>2 DEF Ahead

(* Dropping what the consumer has read leaves ahead what was.              *)
LEMMA AheadShifts ==
  ASSUME NEW S, NEW st \in Seq(S), NEW r, NEW s, NEW k \in Nat, k <= Len(st),
         Ahead(st, r, s, k + 1)
  PROVE  Ahead(SubSeq(st, k + 1, Len(st)), r, s, 1)
<1>0. Len(st) \in Nat
  OBVIOUS
<1>1. PICK i \in (k + 1) .. Len(st) : st[i] = [row |-> r, spend |-> s, stamped |-> FALSE]
  BY DEF Ahead
<1>2. \A j \in (k + 1) .. Len(st) : st[j] \in S
  BY <1>0, ElementOfSeq
<1>3. /\ Len(SubSeq(st, k + 1, Len(st))) = Len(st) - k
      /\ \A j \in 1 .. (Len(st) - k) : SubSeq(st, k + 1, Len(st))[j] = st[k + 1 + j - 1]
  <2>1. k + 1 \in Int /\ Len(st) \in Int /\ k + 1 <= Len(st)
    BY <1>0, <1>1
  <2>. QED BY <1>0, <1>2, <2>1, SubSeqProperties
<1>4. i - k \in 1 .. (Len(st) - k) /\ k + 1 + (i - k) - 1 = i
  BY <1>0, <1>1
<1>5. SubSeq(st, k + 1, Len(st))[i - k] = st[i]
  BY <1>3, <1>4
<1>. QED BY <1>1, <1>3, <1>4, <1>5 DEF Ahead

(* A write that leaves a row unstamped has put its new image last.         *)
Renewed(r) ==
  /\ Len(stream[r.principal]) < Len(stream'[r.principal])
  /\ stream'[r.principal][Len(stream'[r.principal])]
       = [row |-> r, spend |-> spend'[r], stamped |-> FALSE]
Written(r) == \/ stamp'[r] = stamp[r] /\ spend'[r] = spend[r]
              \/ stamp'[r] # NoPolicy
              \/ Renewed(r)

(* What a consumer's state is made of.                                     *)
LEMMA ConsumerType ==
  ASSUME TypeInv, NEW p \in Principals
  PROVE  /\ enf[p].cursor \in Nat /\ enf[p].retries \in Nat /\ enf[p].off \in BOOLEAN
         /\ stream[p] \in Seq(ImagesOf(p)) /\ Len(stream[p]) \in Nat
         /\ used.crashes \in Nat /\ used.faults \in Nat /\ used.admin \in Nat
         /\ enf[p].pc # "idle" => enf[p].row \in Rows /\ enf[p].row.principal = p
BY DEF TypeInv, TypeOK, OwnWork, ConsumerStates, Counts

(* Shards that stay as they are grow by nothing.                           *)
LEMMA StaysGrown ==
  ASSUME TypeInv, NEW p \in Principals, stream'[p] = stream[p]
  PROVE  Grows(p)
BY ConsumerType DEF Grows

(* A renewed row is ahead of everything.                                   *)
LEMMA RenewedAhead ==
  ASSUME NEW r, Grows(r.principal), Renewed(r), NEW n \in Nat, n <= Len(stream[r.principal]) + 1
  PROVE  Ahead(stream'[r.principal], r, spend'[r], n)
<1>1. Len(stream'[r.principal]) \in n .. Len(stream'[r.principal])
  BY DEF Renewed, Grows
<1>. QED BY <1>1 DEF Ahead, Renewed

(* A consumer that stays where it is stays inside its shard.               *)
LEMMA ReadingStays ==
  ASSUME TypeInv, NEW p \in Principals, Reading(p), Grows(p), used.crashes <= used'.crashes,
         used'.crashes \in Nat,
         enf'[p].off = enf[p].off, enf'[p].retries = enf[p].retries,
         enf'[p].cursor = enf[p].cursor, enf'[p].pc # "idle" =>
           /\ enf[p].cursor < Len(stream[p]) /\ Record(p).row = enf'[p].row
  PROVE  Reading(p)'
<1>1. /\ enf[p].cursor \in Nat /\ enf[p].retries \in Nat /\ used.crashes \in Nat
  BY ConsumerType
<1>2. /\ ~enf'[p].off /\ enf'[p].retries <= used'.crashes
      /\ enf'[p].cursor <= Len(stream'[p])
  BY <1>1 DEF Reading, Grows
<1>3. ASSUME enf'[p].pc # "idle"
      PROVE  enf'[p].cursor < Len(stream'[p]) /\ Record(p)'.row = enf'[p].row
  <2>1. enf[p].cursor + 1 \in 1..Len(stream[p])
    BY <1>1, <1>3 DEF Grows
  <2>2. Record(p)' = Record(p)
    BY <2>1 DEF Record, Grows
  <2>. QED BY <1>1, <1>3, <2>2 DEF Grows
<1>. QED BY <1>2, <1>3 DEF Reading

(* A row stays seen while its shard grows by what is written to it.        *)
LEMMA SeenStays ==
  ASSUME TypeInv, NEW r \in Rows, Grows(r.principal), Written(r), UNCHANGED budget,
         NEW n \in Nat, n <= Len(stream[r.principal]),
         Breached(r) /\ stamp'[r] = NoPolicy => Ahead(stream[r.principal], r, spend[r], n + 1),
         enf'[r.principal].cursor = n
  PROVE  Seen(r)'
<1>. SUFFICES ASSUME Breached(r)'
     PROVE  Ahead(stream'[r.principal], r, spend'[r], n + 1)
  BY DEF Seen
<1>1. CASE Renewed(r)
  BY <1>1, RenewedAhead DEF Grows
<1>2. CASE stamp'[r] = stamp[r] /\ spend'[r] = spend[r]
  <2>1. Breached(r) /\ stamp'[r] = NoPolicy
    BY <1>2 DEF Breached, OverLimit, Over
  <2>. QED BY <1>2, <2>1, AheadGrows
<1>. QED BY <1>1, <1>2 DEF Written, Breached

(* Around the consumers.                                                   *)
LEMMA AroundHeard ==
  ASSUME TypeInv, Heard, UNCHANGED <<budget, paused, enf>>, used.crashes <= used'.crashes,
         used'.crashes \in Nat,
         \A p \in Principals : Grows(p), \A r \in Rows : Written(r),
         \A p \in Principals : enf[p].pc = "get" /\ enf[p].pol \in policies \ policies' =>
           stamp'[enf[p].row] # NoPolicy
  PROVE  Heard'
<1>1. ASSUME NEW p \in Principals PROVE Reading(p)'
  BY <1>1, ReadingStays DEF Heard, Reading
<1>2. ASSUME NEW p \in Principals PROVE Redone(p)'
  <2>. SUFFICES ASSUME Vain(p)'
       PROVE  Ahead(stream'[p], enf[p].row, spend'[enf[p].row], enf[p].cursor + 2)
    BY DEF Redone
  <2>1. enf[p].pc # "idle"
    BY DEF Vain
  <2>2. /\ enf[p].row \in Rows /\ enf[p].row.principal = p /\ enf[p].cursor \in Nat
        /\ enf[p].cursor < Len(stream[p]) /\ Len(stream[p]) \in Nat
    BY <2>1, ConsumerType DEF Heard, Reading
  <2>3. CASE Renewed(enf[p].row)
    BY <2>2, <2>3, RenewedAhead
  <2>4. CASE stamp'[enf[p].row] = stamp[enf[p].row] /\ spend'[enf[p].row] = spend[enf[p].row]
    <3>1. Vain(p)
      BY <2>4 DEF Vain
    <3>2. Ahead(stream[p], enf[p].row, spend[enf[p].row], enf[p].cursor + 2)
      BY <3>1 DEF Heard, Redone
    <3>3. Grows(p) /\ enf[p].cursor + 2 \in Nat /\ enf[p].cursor + 2 > 0
      BY <2>2
    <3>4. Ahead(stream'[p], enf[p].row, spend[enf[p].row], enf[p].cursor + 2)
      BY <3>2, <3>3, AheadGrows
    <3>. QED BY <2>4, <3>4
  <2>. QED BY <2>2, <2>3, <2>4 DEF Written, Vain
<1>3. ASSUME NEW r \in Rows PROVE Seen(r)'
  <2>1. r.principal \in Principals /\ enf[r.principal].cursor \in Nat
    BY ConsumerType DEF Rows
  <2>2. Breached(r) => Ahead(stream[r.principal], r, spend[r], enf[r.principal].cursor + 1)
    BY DEF Heard, Seen
  <2>3. enf[r.principal].cursor <= Len(stream[r.principal])
    BY <2>1 DEF Heard, Reading
  <2>. QED BY <2>1, <2>2, <2>3, SeenStays
<1>. QED BY <1>1, <1>2, <1>3 DEF Heard

(* One consumer goes on; rows are at most stamped.                         *)
LEMMA ConsumerHeard ==
  ASSUME TypeInv, Heard, NEW p \in Principals, UNCHANGED <<budget, paused, spend, used>>,
         policies \subseteq policies',
         \A q \in Principals \ {p} : enf'[q] = enf[q],
         \A q \in Principals : Grows(q),
         \A r \in Rows : stamp'[r] = stamp[r] \/ stamp'[r] # NoPolicy,
         Reading(p)', Redone(p)',
         enf'[p].cursor \in Nat, enf'[p].cursor <= Len(stream[p]),
         \A r \in Rows : r.principal = p /\ Breached(r) /\ stamp'[r] = NoPolicy =>
           Ahead(stream[p], r, spend[r], enf'[p].cursor + 1)
  PROVE  Heard'
<1>0. \A r \in Rows : Written(r)
  BY DEF Written
<1>1. ASSUME NEW q \in Principals PROVE Reading(q)'
  <2>1. CASE q = p
    BY <2>1
  <2>2. CASE q # p
    BY <1>1, <2>2, ReadingStays, ConsumerType DEF Heard, Reading
  <2>. QED BY <2>1, <2>2
<1>2. ASSUME NEW q \in Principals PROVE Redone(q)'
  <2>1. CASE q = p
    BY <2>1
  <2>2. CASE q # p
    <3>. SUFFICES ASSUME Vain(q)'
         PROVE  Ahead(stream'[q], enf[q].row, spend[enf[q].row], enf[q].cursor + 2)
      BY <1>2, <2>2 DEF Redone
    <3>1. enf'[q] = enf[q]
      BY <2>2
    <3>2. enf[q].pc # "idle"
      BY <3>1 DEF Vain
    <3>3. enf[q].row \in Rows /\ enf[q].cursor \in Nat
      BY <1>2, <3>2, ConsumerType
    <3>4. Vain(q)
      BY <3>1, <3>3 DEF Vain
    <3>5. Ahead(stream[q], enf[q].row, spend[enf[q].row], enf[q].cursor + 2)
      BY <3>4 DEF Heard, Redone
    <3>6. Grows(q) /\ enf[q].cursor + 2 \in Nat /\ enf[q].cursor + 2 > 0
      BY <3>3
    <3>. QED BY <3>5, <3>6, AheadGrows
  <2>. QED BY <2>1, <2>2
<1>3. ASSUME NEW r \in Rows PROVE Seen(r)'
  <2>0. r.principal \in Principals
    BY DEF Rows
  <2>1. CASE r.principal = p
    BY <1>0, <2>1, SeenStays
  <2>2. CASE r.principal # p
    <3>1. enf'[r.principal] = enf[r.principal] /\ enf[r.principal].cursor \in Nat
      BY <2>0, <2>2, ConsumerType
    <3>2. Breached(r) => Ahead(stream[r.principal], r, spend[r], enf[r.principal].cursor + 1)
      BY DEF Heard, Seen
    <3>3. enf[r.principal].cursor <= Len(stream[r.principal])
      BY <2>0 DEF Heard, Reading
    <3>. QED BY <1>0, <2>0, <3>1, <3>2, <3>3, SeenStays
  <2>. QED BY <2>1, <2>2
<1>. QED BY <1>1, <1>2, <1>3 DEF Heard

(* What is done with a record leaves behind.                               *)
LEMMA FinishReads ==
  ASSUME TypeInv, NEW p \in Principals, Reading(p), Finish(p), UNCHANGED <<stream, used>>,
         enf[p].cursor < Len(stream[p])
  PROVE  /\ Reading(p)' /\ Redone(p)'
         /\ enf'[p].cursor = enf[p].cursor + 1
<1>1. enf' = [enf EXCEPT ![p] = Consumer(enf[p].cursor + 1, enf[p].retries, enf[p].off)]
  BY DEF Finish, Advanced
<1>2. enf'[p] = Consumer(enf[p].cursor + 1, enf[p].retries, enf[p].off)
  BY <1>1 DEF TypeInv, TypeOK
<1>3. /\ enf'[p].pc = "idle" /\ enf'[p].cursor = enf[p].cursor + 1
      /\ enf'[p].retries = enf[p].retries /\ enf'[p].off = enf[p].off
  BY <1>2 DEF Consumer
<1>4. enf[p].cursor \in Nat /\ Len(stream[p]) \in Nat
  BY ConsumerType
<1>5. Reading(p)'
  BY <1>3, <1>4 DEF Reading
<1>. QED BY <1>3, <1>5 DEF Redone, Vain

(* A consumer ends its work on a row that is stamped by now, or in vain.   *)
LEMMA FinishHeard ==
  ASSUME TypeInv, Heard, NEW p \in Principals, UNCHANGED <<table, budget, paused, policies, used>>,
         Finish(p), enf[p].pc # "idle", stamp[enf[p].row] # NoPolicy \/ Vain(p)
  PROVE  Heard'
<1>1. /\ enf[p].cursor < Len(stream[p]) /\ Record(p).row = enf[p].row
      /\ enf[p].cursor \in Nat /\ Len(stream[p]) \in Nat
      /\ Reading(p)
  BY ConsumerType DEF Heard, Reading
<1>2. UNCHANGED <<stream, spend, stamp>>
  BY DEF table
<1>3. Reading(p)' /\ Redone(p)' /\ enf'[p].cursor = enf[p].cursor + 1
  BY <1>1, <1>2, FinishReads
<1>4. ASSUME NEW r \in Rows, r.principal = p, Breached(r)
      PROVE  Ahead(stream[p], r, spend[r], (enf[p].cursor + 1) + 1)
  <2>1. Ahead(stream[p], r, spend[r], enf[p].cursor + 1)
    BY <1>4 DEF Heard, Seen
  <2>2. CASE r = enf[p].row
    <3>1. Vain(p)
      BY <1>4, <2>2 DEF Breached
    <3>2. Ahead(stream[p], r, spend[r], enf[p].cursor + 2)
      BY <2>2, <3>1 DEF Heard, Redone
    <3>3. (enf[p].cursor + 1) + 1 = enf[p].cursor + 2
      BY <1>1
    <3>. QED BY <3>2, <3>3
  <2>3. CASE r # enf[p].row
    <3>1. stream[p][enf[p].cursor + 1] # [row |-> r, spend |-> spend[r], stamped |-> FALSE]
      BY <1>1, <2>3 DEF Record
    <3>. QED BY <1>1, <2>1, <3>1, AheadBeyond
  <2>. QED BY <2>2, <2>3
<1>5. \A q \in Principals \ {p} : enf'[q] = enf[q]
  BY FinishIdle
<1>6. \A q \in Principals : Grows(q)
  BY <1>2, StaysGrown
<1>. QED BY <1>1, <1>2, <1>3, <1>4, <1>5, <1>6, ConsumerHeard

(* The handler skips a record only when its row breaches nothing.          *)
LEMMA SkipHeard ==
  ASSUME TypeInv, Heard, NEW p \in Principals, EnforceSkip(p)
  PROVE  Heard'
<1>1. /\ Finish(p) /\ UNCHANGED <<stream, spend, stamp, budget, paused, policies, used>>
      /\ Pending(p)
      /\ \E rx, rw \in BOOLEAN : Enforceable(Record(p)) => Deciding(Record(p), rx, rw) = {}
  BY DEF EnforceSkip, table, iam
<1>2. /\ enf[p].cursor < Len(stream[p])
      /\ enf[p].cursor \in Nat /\ Len(stream[p]) \in Nat
      /\ Reading(p)
  BY <1>1, ConsumerType DEF Heard, Pending
<1>3. Reading(p)' /\ Redone(p)' /\ enf'[p].cursor = enf[p].cursor + 1
  BY <1>1, <1>2, FinishReads
<1>4. ASSUME NEW r \in Rows, r.principal = p, Breached(r)
      PROVE  Ahead(stream[p], r, spend[r], (enf[p].cursor + 1) + 1)
  <2>1. Ahead(stream[p], r, spend[r], enf[p].cursor + 1)
    BY <1>4 DEF Heard, Seen
  <2>2. stream[p][enf[p].cursor + 1] # [row |-> r, spend |-> spend[r], stamped |-> FALSE]
    <3>. SUFFICES ASSUME Record(p) = [row |-> r, spend |-> spend[r], stamped |-> FALSE]
         PROVE  FALSE
      BY DEF Record
    <3>1. PICK rx \in BOOLEAN, rw \in BOOLEAN :
            Enforceable(Record(p)) => Deciding(Record(p), rx, rw) = {}
      BY <1>1
    <3>2. Enforceable(Record(p))
      BY <1>2, <1>4 DEF Enforceable, Reading, Breached
    <3>3. PICK t \in {r.target, WildOf[r.target]} : Over(r, budget[<<p, t>>])
      BY <1>4 DEF Breached, OverLimit
    <3>4. \A rate : Breaches(budget[<<p, t>>], Record(p), rate)
      BY <3>3 DEF Over, Limiting, Breaches
    <3>5. Deciding(Record(p), rx, rw) # {}
      <4>1. Record(p).row.principal = p /\ Record(p).row.target = r.target
        BY <1>4
      <4>2. CASE t = r.target
        BY <3>4, <4>1, <4>2 DEF Deciding
      <4>3. CASE t = WildOf[r.target]
        BY <3>4, <4>1, <4>3 DEF Deciding
      <4>. QED BY <3>3, <4>2, <4>3
    <3>. QED BY <3>1, <3>2, <3>5
  <2>. QED BY <1>2, <2>1, <2>2, AheadBeyond
<1>5. \A q \in Principals \ {p} : enf'[q] = enf[q]
  BY <1>1, FinishIdle
<1>6. \A q \in Principals : Grows(q)
  BY <1>1, StaysGrown
<1>. QED BY <1>1, <1>2, <1>3, <1>4, <1>5, <1>6, ConsumerHeard

(* The consumer goes on to another call, or starts on the record it is at. *)
LEMMA WorksHeard ==
  ASSUME TypeInv, Heard, NEW p \in Principals, UNCHANGED <<budget, paused, spend, used>>,
         policies \subseteq policies',
         \A q \in Principals \ {p} : enf'[q] = enf[q],
         \A q \in Principals : Grows(q),
         \A r \in Rows : stamp'[r] = stamp[r] \/ stamp'[r] # NoPolicy,
         enf'[p].off = enf[p].off, enf'[p].retries = enf[p].retries,
         enf'[p].cursor = enf[p].cursor,
         enf[p].cursor < Len(stream[p]), Record(p).row = enf'[p].row, ~Vain(p)'
  PROVE  Heard'
<1>1. enf[p].cursor \in Nat /\ Len(stream[p]) \in Nat /\ used.crashes \in Nat /\ Reading(p) /\ Grows(p)
  BY ConsumerType DEF Heard
<1>2. Reading(p)'
  BY <1>1, ReadingStays
<1>3. Redone(p)'
  BY DEF Redone
<1>4. ASSUME NEW r \in Rows, r.principal = p, Breached(r)
      PROVE  Ahead(stream[p], r, spend[r], enf'[p].cursor + 1)
  BY <1>4 DEF Heard, Seen
<1>. QED BY <1>1, <1>2, <1>3, <1>4, ConsumerHeard

(* The next invocation begins where this one ended.                        *)
LEMMA CheckpointHeard ==
  ASSUME TypeInv, Heard, NEW p \in Principals, EnforceCheckpoint(p)
  PROVE  Heard'
<1> DEFINE k == enf[p].cursor
           rest == SubSeq(stream[p], k + 1, Len(stream[p]))
<1>1. /\ stream' = [stream EXCEPT ![p] = rest]
      /\ enf' = [enf EXCEPT ![p] = Consumer(0, 0, paused)]
      /\ UNCHANGED <<spend, stamp, budget, paused, policies, used>>
  BY DEF EnforceCheckpoint, iam
<1>2. /\ k \in Nat /\ k <= Len(stream[p]) /\ ~paused /\ Len(stream[p]) \in Nat
      /\ stream[p] \in Seq(ImagesOf(p)) /\ used.crashes \in Nat
  BY ConsumerType DEF Heard, Reading
<1>3. rest \in Seq(ImagesOf(p)) /\ Len(rest) \in Nat
  <2>1. \A i \in (k + 1) .. Len(stream[p]) : stream[p][i] \in ImagesOf(p)
    BY <1>2, ElementOfSeq
  <2>2. k + 1 \in Int /\ Len(stream[p]) \in Int
    BY <1>2
  <2>3. rest \in Seq(ImagesOf(p))
    BY <2>1, <2>2, SubSeqProperties
  <2>. QED BY <2>3
<1>4. ASSUME NEW r, NEW s, Ahead(stream[p], r, s, k + 1)
      PROVE  Ahead(rest, r, s, 1)
  BY <1>2, <1>4, AheadShifts
<1>. HIDE DEF rest, k
<1>5. /\ stream'[p] = rest /\ enf'[p] = Consumer(0, 0, paused)
      /\ \A q \in Principals \ {p} : stream'[q] = stream[q] /\ enf'[q] = enf[q]
  BY <1>1 DEF TypeInv, TypeOK
<1>6. enf'[p].pc = "idle" /\ enf'[p].cursor = 0 /\ enf'[p].retries = 0 /\ enf'[p].off = paused
  BY <1>5 DEF Consumer
<1>7. ASSUME NEW q \in Principals PROVE Reading(q)' /\ Redone(q)'
  <2>1. CASE q = p
    BY <1>1, <1>2, <1>3, <1>5, <1>6, <2>1 DEF Reading, Redone, Vain
  <2>2. CASE q # p
    <3>1. enf'[q] = enf[q] /\ stream'[q] = stream[q]
      BY <1>5, <2>2
    <3>. QED BY <1>1, <3>1 DEF Heard, Reading, Redone, Vain, Record
  <2>. QED BY <2>1, <2>2
<1>8. ASSUME NEW r \in Rows PROVE Seen(r)'
  <2>. SUFFICES ASSUME Breached(r)'
       PROVE  Ahead(stream'[r.principal], r, spend'[r], enf'[r.principal].cursor + 1)
    BY DEF Seen
  <2>1. Breached(r) /\ spend'[r] = spend[r]
    BY <1>1 DEF Breached, OverLimit, Over
  <2>2. Ahead(stream[r.principal], r, spend[r], enf[r.principal].cursor + 1)
    BY <2>1 DEF Heard, Seen
  <2>3. CASE r.principal = p
    BY <1>4, <1>5, <1>6, <2>1, <2>2, <2>3 DEF k
  <2>4. CASE r.principal # p
    BY <1>5, <2>1, <2>2, <2>4 DEF Rows
  <2>. QED BY <2>3, <2>4
<1>9. ~paused'
  BY <1>1, <1>2
<1>. QED BY <1>7, <1>8, <1>9 DEF Heard

(* An invocation that dies has its batch delivered again, for it dies too  *)
(* seldom to use up the redeliveries.                                      *)
LEMMA CrashHeard ==
  ASSUME Undisturbed, TypeInv, Heard, NEW p \in Principals, EnforceCrash(p)
  PROVE  Heard'
<1>1. /\ Use("crashes") /\ UNCHANGED <<spend, stamp, budget, paused, policies>> /\ ~paused
  BY DEF EnforceCrash, Heard, iam
<1>2. /\ enf[p].cursor \in Nat /\ enf[p].retries \in Nat /\ used.crashes \in Nat
      /\ enf[p].retries <= used.crashes
      /\ RetryAttempts \in Nat /\ MaxUse.crashes \in Nat
  BY ConsumerType, BoundsAssumption DEF Heard, Reading, Counts
<1>3. used.crashes < MaxUse.crashes /\ used'.crashes = used.crashes + 1
  BY <1>1 DEF Use, TypeInv, TypeOK, Counts
<1>4. enf[p].retries < RetryAttempts
  BY <1>2, <1>3 DEF Undisturbed
<1>5. enf' = [enf EXCEPT ![p] = Consumer(0, enf[p].retries + 1, paused)] /\ UNCHANGED stream
  BY <1>4 DEF EnforceCrash
<1>6. /\ enf'[p] = Consumer(0, enf[p].retries + 1, paused)
      /\ \A q \in Principals \ {p} : enf'[q] = enf[q]
  BY <1>5 DEF TypeInv, TypeOK
<1>7. /\ enf'[p].pc = "idle" /\ enf'[p].cursor = 0
      /\ enf'[p].retries = enf[p].retries + 1 /\ enf'[p].off = paused
  BY <1>6 DEF Consumer
<1>8. ASSUME NEW q \in Principals PROVE Reading(q)' /\ Redone(q)'
  <2>0. Len(stream[q]) \in Nat /\ enf[q].retries \in Nat
    BY ConsumerType
  <2>1. CASE q = p
    BY <1>1, <1>2, <1>3, <1>5, <1>7, <2>0, <2>1 DEF Reading, Redone, Vain
  <2>2. CASE q # p
    <3>1. enf'[q] = enf[q] /\ Reading(q) /\ Redone(q)
      BY <1>6, <2>2 DEF Heard
    <3>. QED BY SMTT(60), <1>1, <1>2, <1>3, <1>5, <2>0, <3>1 DEF Reading, Redone, Vain, Record
  <2>. QED BY <2>1, <2>2
<1>9. ASSUME NEW r \in Rows PROVE Seen(r)'
  <2>. SUFFICES ASSUME Breached(r)'
       PROVE  Ahead(stream[r.principal], r, spend[r], enf'[r.principal].cursor + 1)
    BY <1>1, <1>5 DEF Seen
  <2>1. Breached(r)
    BY <1>1 DEF Breached, OverLimit, Over
  <2>2. Ahead(stream[r.principal], r, spend[r], enf[r.principal].cursor + 1)
    BY <2>1 DEF Heard, Seen
  <2>3. CASE r.principal = p
    <3>1. PICK i \in (enf[p].cursor + 1) .. Len(stream[p]) :
            stream[p][i] = [row |-> r, spend |-> spend[r], stamped |-> FALSE]
      BY <2>2, <2>3 DEF Ahead
    <3>2. i \in 1 .. Len(stream[p])
      BY <1>2
    <3>. QED BY <1>7, <2>3, <3>1, <3>2 DEF Ahead
  <2>4. CASE r.principal # p
    BY <1>6, <2>2, <2>4 DEF Rows
  <2>. QED BY <2>3, <2>4
<1>. QED BY <1>1, <1>8, <1>9 DEF Heard

(* A policy that goes while a consumer looks for it was that of its row,   *)
(* whose stamp the remover has still to clear.                             *)
LEMMA DeletedStamped ==
  ASSUME WildcardsApart, IInv, OwnPolicies, NEW x \in Removers, rem[x].pc = "delete",
         NEW p \in Principals, enf[p].pc = "get", enf[p].pol = rem[x].pol
  PROVE  stamp[enf[p].row] # NoPolicy
<1>1. TypeInv /\ ClaimsStamped
  BY DEF IInv
<1>2. /\ rem[x].row \in Rows /\ rem[x].pol \in Policies
      /\ <<rem[x].row, rem[x].pol>> \in Claims(x)
  BY <1>1, HeldClaimed
<1>3. stamp[rem[x].row] = rem[x].pol /\ rem[x].pol # NoPolicy
  BY <1>1, <1>2, NullAssumption DEF ClaimsStamped
<1>4. enf[p].row \in Rows /\ enf[p].pol \in Own(enf[p].row) /\ rem[x].pol \in Own(rem[x].row)
  BY <1>1, <1>2, <1>3, ConsumerType DEF OwnPolicies
<1>5. enf[p].row = rem[x].row
  BY <1>2, <1>4, OwnApart
<1>. QED BY <1>3, <1>5

(* Every step that nobody disturbs leaves what is over its limit seen.     *)
LEMMA HeardStep ==
  ASSUME Undisturbed, WildcardsApart, IInv, OwnPolicies, Heard, [Next]_vars
  PROVE  Heard'
<1>0. /\ TypeInv /\ TypeOK /\ used.crashes \in Nat /\ used.faults \in Nat /\ used.admin \in Nat
      /\ used \in Counts /\ MaxUse.faults = 0 /\ MaxUse.admin = 0
      /\ spend \in [Rows -> Nat] /\ stamp \in [Rows -> Policies \union {NoPolicy}]
      /\ \A r \in Rows : r.principal \in Principals
  BY DEF IInv, TypeInv, TypeOK, Counts, Undisturbed, NoFaults, Rows
<1>1. ASSUME UNCHANGED <<table, budget, paused, enf, policies>>,
             used.crashes <= used'.crashes, used'.crashes \in Nat
      PROVE  Heard'
  BY <1>0, <1>1, StaysGrown, AroundHeard DEF table, Written
<1>2. ASSUME NEW f \in {"faults", "admin"}, Use(f) PROVE FALSE
  BY <1>0, <1>2 DEF Use
<1>3. CASE Tick \/ UNCHANGED vars
  BY <1>0, <1>1, <1>3 DEF Tick, vars, iam
<1>4. CASE AdminPause
  BY <1>2, <1>4 DEF AdminPause
<1>5. ASSUME NEW r \in Rows, MeterWrite(r) PROVE Heard'
  <2>1. /\ spend' = [spend EXCEPT ![r] = @ + 1] /\ Publish(r, spend[r] + 1, stamp[r])
        /\ UNCHANGED <<stamp, budget, paused, enf, policies, used>>
    BY <1>5 DEF MeterWrite, iam
  <2>2. spend[r] + 1 \in Nat /\ spend'[r] = spend[r] + 1
        /\ \A q \in Rows \ {r} : spend'[q] = spend[q]
    BY <1>0, <2>1
  <2>3. /\ \A p \in Principals : Grows(p)
        /\ Len(stream'[r.principal]) = Len(stream[r.principal]) + 1
        /\ stream'[r.principal][Len(stream[r.principal]) + 1]
             = [row |-> r, spend |-> spend[r] + 1, stamped |-> stamp[r] # NoPolicy]
    BY <1>0, <2>1, <2>2, PublishGrows
  <2>4. Written(r)
    <3>1. CASE stamp[r] = NoPolicy
      <4>1. (stamp[r] # NoPolicy) = FALSE
        BY <3>1
      <4>2. Len(stream[r.principal]) \in Nat /\ Len(stream'[r.principal]) = Len(stream[r.principal]) + 1
        BY <1>0, <2>3 DEF Grows
      <4>3. stream'[r.principal][Len(stream'[r.principal])]
              = [row |-> r, spend |-> spend'[r], stamped |-> FALSE]
        BY <2>2, <2>3, <4>1
      <4>4. Renewed(r)
        BY <4>2, <4>3 DEF Renewed
      <4>. QED BY <4>4 DEF Written
    <3>2. CASE stamp[r] # NoPolicy
      BY <2>1, <3>2 DEF Written
    <3>. QED BY <3>1, <3>2
  <2>5. \A q \in Rows : Written(q)
    BY <2>1, <2>2, <2>4 DEF Written
  <2>. QED BY <1>0, <2>1, <2>3, <2>5, AroundHeard
<1>6. ASSUME NEW k \in BudgetKeys, NEW b, AdminBudget(k, b) PROVE FALSE
  BY <1>2, <1>6 DEF AdminBudget
<1>7. ASSUME NEW p \in Principals, EnforcerStep(p) PROVE Heard'
  <2>0. /\ enf[p].cursor \in Nat /\ Len(stream[p]) \in Nat
        /\ enf[p].pc # "idle" => /\ enf[p].cursor < Len(stream[p])
                                 /\ Record(p).row = enf[p].row
                                 /\ enf[p].row \in Rows
    BY <1>0, ConsumerType DEF Heard, Reading
  <2>1. CASE EnforceSkip(p)
    BY <1>0, <2>1, SkipHeard
  <2>2. CASE EnforceDecide(p)
    <3>1. /\ UNCHANGED <<stream, spend, stamp, budget, paused, policies, used>>
          /\ enf[p].cursor < Len(stream[p])
          /\ \E a : enf' = [enf EXCEPT ![p].pc = "create", ![p].row = Record(p).row, ![p].pol = a]
      BY <2>2 DEF EnforceDecide, Pending, table, iam
    <3>2. /\ enf'[p].pc = "create" /\ enf'[p].row = Record(p).row
          /\ enf'[p].off = enf[p].off /\ enf'[p].retries = enf[p].retries
          /\ enf'[p].cursor = enf[p].cursor
          /\ \A q \in Principals \ {p} : enf'[q] = enf[q]
      BY <1>0, <3>1 DEF TypeOK, ConsumerStates
    <3>3. ~Vain(p)'
      BY <3>2 DEF Vain
    <3>4. \A q \in Principals : Grows(q)
      BY <1>0, <3>1, StaysGrown
    <3>. QED BY <1>0, <3>1, <3>2, <3>3, <3>4, WorksHeard
  <2>3. ASSUME NEW pc, Goto(p, pc)
        PROVE  /\ enf'[p].pc = pc /\ enf'[p].row = enf[p].row /\ enf'[p].pol = enf[p].pol
               /\ enf'[p].off = enf[p].off /\ enf'[p].retries = enf[p].retries
               /\ enf'[p].cursor = enf[p].cursor
               /\ \A q \in Principals \ {p} : enf'[q] = enf[q]
    BY <1>0, <2>3 DEF Goto, TypeOK, ConsumerStates
  <2>4. CASE EnforceCreate(p)
    <3>1. /\ UNCHANGED <<stream, spend, stamp, budget, paused, used>>
          /\ policies' = policies \union {enf[p].pol}
          /\ Goto(p, "get") \/ Goto(p, "stamp")
      BY <2>4 DEF EnforceCreate, table
    <3>2. /\ enf'[p].pc \in {"get", "stamp"} /\ enf'[p].row = enf[p].row /\ enf'[p].pol = enf[p].pol
          /\ enf'[p].off = enf[p].off /\ enf'[p].retries = enf[p].retries
          /\ enf'[p].cursor = enf[p].cursor
          /\ \A q \in Principals \ {p} : enf'[q] = enf[q]
      BY <2>3, <3>1
    <3>3. ~Vain(p)'
      BY <3>1, <3>2 DEF Vain
    <3>4. \A q \in Principals : Grows(q)
      BY <1>0, <3>1, StaysGrown
    <3>5. enf[p].pc # "idle"
      BY <2>4 DEF EnforceCreate
    <3>. QED BY <1>0, <2>0, <3>1, <3>2, <3>3, <3>4, <3>5, WorksHeard
  <2>5. CASE EnforceGet(p)
    <3>1. /\ UNCHANGED <<table, budget, paused, policies, used>> /\ enf[p].pc = "get"
      BY <2>5 DEF EnforceGet, iam
    <3>2. CASE enf[p].pol \in policies /\ Goto(p, "stamp")
      <4>1. ~Vain(p)'
        BY <2>3, <3>2 DEF Vain
      <4>2. \A q \in Principals : Grows(q)
        BY <1>0, <3>1, StaysGrown DEF table
      <4>3. UNCHANGED <<stream, spend, stamp>>
        BY <3>1 DEF table
      <4>. QED BY <1>0, <2>0, <2>3, <3>1, <3>2, <4>1, <4>2, <4>3, WorksHeard
    <3>3. CASE enf[p].pol \notin policies /\ Finish(p)
      BY <1>0, <3>1, <3>3, FinishHeard DEF Vain
    <3>. QED BY <2>5, <3>2, <3>3 DEF EnforceGet
  <2>6. CASE EnforceStamp(p)
    <3>1. /\ UNCHANGED <<budget, paused, policies, used>> /\ enf[p].pc = "stamp"
      BY <2>6 DEF EnforceStamp, iam
    <3>2. CASE StampRow(p) /\ Goto(p, "attach")
      <4>1. /\ stamp' = [stamp EXCEPT ![enf[p].row] = enf[p].pol]
            /\ Publish(enf[p].row, spend[enf[p].row], enf[p].pol)
            /\ UNCHANGED spend /\ enf[p].row \in Rows
            /\ enf[p].pol # NoPolicy /\ spend[enf[p].row] \in Nat
        BY <1>0, <2>0, <3>1, <3>2, NullAssumption DEF StampRow, TypeInv, OwnWork
      <4>2. \A q \in Principals : Grows(q)
        BY <1>0, <4>1, PublishGrows
      <4>3. stamp'[enf[p].row] # NoPolicy /\ \A r \in Rows \ {enf[p].row} : stamp'[r] = stamp[r]
        BY <1>0, <4>1
      <4>4. ~Vain(p)'
        BY <2>3, <3>2, <4>3 DEF Vain
      <4>5. \A r \in Rows : stamp'[r] = stamp[r] \/ stamp'[r] # NoPolicy
        BY <4>3
      <4>. QED BY <1>0, <2>0, <2>3, <3>1, <3>2, <4>1, <4>2, <4>4, <4>5, WorksHeard
    <3>3. CASE stamp[enf[p].row] # NoPolicy /\ Finish(p) /\ UNCHANGED <<table, alarmed>>
      BY <1>0, <3>1, <3>3, FinishHeard
    <3>. QED BY <2>6, <3>2, <3>3 DEF EnforceStamp
  <2>7. CASE EnforceAttach(p) \/ EnforceAttachStuck(p)
    <3>1. /\ UNCHANGED <<table, budget, paused, policies, used>> /\ enf[p].pc = "attach" /\ Finish(p)
      BY <2>7 DEF EnforceAttach, EnforceAttachStuck, iam
    <3>2. stamp[enf[p].row] # NoPolicy \/ Vain(p)
      BY <3>1 DEF Vain
    <3>. QED BY <1>0, <3>1, <3>2, FinishHeard
  <2>8. CASE EnforceCheckpoint(p)
    BY <1>0, <2>8, CheckpointHeard
  <2>. QED BY <1>7, <2>1, <2>2, <2>4, <2>5, <2>6, <2>7, <2>8 DEF EnforcerStep
<1>8. ASSUME NEW p \in Principals, EnforceStampLost(p) \/ EnforceFault(p) PROVE FALSE
  BY <1>2, <1>8 DEF EnforceStampLost, EnforceFault
<1>9. ASSUME NEW p \in Principals, EnforceCrash(p) PROVE Heard'
  BY <1>0, <1>9, CrashHeard
<1>10. ASSUME NEW x \in Removers, NEW r \in Rows, ReleaseStart(x, r) PROVE Heard'
  BY <1>0, <1>1, <1>10 DEF ReleaseStart, Use, Counts, iam
<1>11. ASSUME NEW x \in Removers, NEW d \in Periods,
              ScheduledRollover(x, d) \/ ManualRollover(x, d)
       PROVE  Heard'
  BY <1>0, <1>1, <1>11
     DEF ScheduledRollover, ManualRollover, RolloverSnapshot, Use, Counts, iam
<1>12. ASSUME NEW x \in Removers, RolloverNext(x) \/ RemoveList(x) \/ RemoveDetach(x)
       PROVE  Heard'
  <2>1. UNCHANGED <<table, budget, paused, enf, policies, used>>
    BY <1>12 DEF RolloverNext, RemoveList, RemoveDetach, iam
  <2>. QED BY <1>0, <1>1, <2>1
<1>13. ASSUME NEW x \in Removers, RemoveDelete(x) PROVE Heard'
  <2>1. /\ UNCHANGED <<stream, spend, stamp, budget, paused, enf, used>>
        /\ policies \ policies' \subseteq {rem[x].pol} /\ rem[x].pc = "delete"
    BY <1>13 DEF RemoveDelete, table
  <2>2. \A p \in Principals : enf[p].pc = "get" /\ enf[p].pol \in policies \ policies' =>
          stamp'[enf[p].row] # NoPolicy
    BY <2>1, DeletedStamped
  <2>3. \A p \in Principals : Grows(p)
    BY <1>0, <2>1, StaysGrown
  <2>4. \A r \in Rows : Written(r)
    BY <2>1 DEF Written
  <2>. QED BY <1>0, <2>1, <2>2, <2>3, <2>4, AroundHeard
<1>14. ASSUME NEW x \in Removers, RemoveClear(x) PROVE Heard'
  <2>1. UNCHANGED <<budget, paused, enf, policies, used>> /\ rem[x].pc = "clear"
    BY <1>14 DEF RemoveClear, iam
  <2>2. CASE UNCHANGED table
    BY <1>0, <1>1, <2>1, <2>2
  <2>3. CASE /\ stamp' = [stamp EXCEPT ![rem[x].row] = NoPolicy]
             /\ Publish(rem[x].row, spend[rem[x].row], NoPolicy) /\ UNCHANGED spend
    <3> DEFINE r == rem[x].row
    <3>1. r \in Rows /\ spend[r] \in Nat
      BY <1>0, <2>1, HeldClaimed
    <3>2. /\ \A p \in Principals : Grows(p)
          /\ Len(stream'[r.principal]) = Len(stream[r.principal]) + 1
          /\ stream'[r.principal][Len(stream[r.principal]) + 1]
               = [row |-> r, spend |-> spend[r], stamped |-> NoPolicy # NoPolicy]
      BY <1>0, <2>3, <3>1, PublishGrows
    <3> HIDE DEF r
    <3>3. \A q \in Rows \ {r} : stamp'[q] = stamp[q]
      BY <1>0, <2>3, <3>1 DEF r
    <3>4. Renewed(r)
      <4>1. (NoPolicy # NoPolicy) = FALSE /\ spend'[r] = spend[r]
        BY <2>3
      <4>2. Len(stream[r.principal]) \in Nat /\ Len(stream'[r.principal]) = Len(stream[r.principal]) + 1
        BY <1>0, <3>1, <3>2 DEF Grows
      <4>3. stream'[r.principal][Len(stream'[r.principal])]
              = [row |-> r, spend |-> spend'[r], stamped |-> FALSE]
        BY <3>2, <4>1
      <4>. QED BY <4>2, <4>3 DEF Renewed
    <3>5. \A q \in Rows : Written(q)
      BY <2>3, <3>3, <3>4 DEF Written
    <3>. QED BY <1>0, <2>1, <2>3, <3>2, <3>5, AroundHeard
  <2>. QED BY <1>14, <2>2, <2>3 DEF RemoveClear
<1>15. ASSUME NEW x \in Removers, RemoveFault(x) PROVE FALSE
  BY <1>2, <1>15 DEF RemoveFault
<1>16. ASSUME NEW x \in Removers, RemoveCrash(x) PROVE Heard'
  BY <1>0, <1>1, <1>16 DEF RemoveCrash, Use, Counts, iam
<1>. QED BY <1>3, <1>4, <1>5, <1>6, <1>7, <1>8, <1>9, <1>10, <1>11, <1>12, <1>13, <1>14, <1>15,
            <1>16
         DEF Next, RemoverStep

(* At first nothing is spent.                                              *)
LEMMA HeardInit == Init => Heard
<1>. SUFFICES ASSUME Init PROVE Heard
  OBVIOUS
<1>1. /\ ~paused /\ \A r \in Rows : spend[r] = 0
      /\ \A p \in Principals : enf[p] = Consumer(0, 0, FALSE) /\ stream[p] = <<>>
      /\ used.crashes = 0
  BY DEF Init
<1>2. \A p \in Principals : /\ enf[p].pc = "idle" /\ enf[p].cursor = 0 /\ enf[p].retries = 0
                            /\ ~enf[p].off /\ Len(stream[p]) = 0
  BY <1>1 DEF Consumer
<1>. QED BY <1>1, <1>2 DEF Heard, Reading, Redone, Vain, Seen, Breached

(* BreachedIsStamped for any principals, targets and removers: as long as  *)
(* nothing is edited, no call to AWS fails for good, invocations die no    *)
(* more often than a batch is delivered again, and no wildcard budget      *)
(* covers two targets, no row that settles over its limit is unenforced.   *)
THEOREM BreachStamped ==
  ASSUME Serialized, Undisturbed, WildcardsApart
  PROVE  Spec => []BreachedIsStamped
<1>1. Init => OwnPolicies /\ Heard
  BY OwnInit, HeardInit
<1>2. IInv /\ OwnPolicies /\ Heard /\ [Next]_vars => OwnPolicies' /\ Heard'
  BY OwnStep, HeardStep DEF IInv
<1>3. IInv /\ Heard => BreachedIsStamped
  <2>. SUFFICES ASSUME IInv, Heard, Settled, NEW r \in Rows, Breached(r) PROVE FALSE
    <3>. SUFFICES ASSUME IInv, Heard, Settled, NEW r \in Rows, stamp[r] = NoPolicy,
                         AttachKind[r.principal] # "none", NEW t \in LimitsOf(r),
                         spend[r] >= budget[<<r.principal, t>>].blockAt
                  PROVE  Breached(r)
      BY DEF BreachedIsStamped
    <3>1. /\ t \in {r.target, WildOf[r.target]}
          /\ Limiting(budget[<<r.principal, t>>])
      BY DEF LimitsOf
    <3>2. <<r.principal, t>> \in BudgetKeys
      BY <3>1, TargetsAssumption DEF Rows, BudgetKeys, BudgetTargets
    <3>3. spend[r] \in Nat /\ budget[<<r.principal, t>>].blockAt \in Nat \ {0}
      BY <3>1, <3>2 DEF IInv, TypeInv, TypeOK, Limiting, Budgets
    <3>. QED BY <3>1, <3>3 DEF Breached, OverLimit, Over
  <2>1. r.principal \in Principals /\ TypeInv
    BY DEF Rows, IInv
  <2>2. stream[r.principal] = <<>> /\ enf[r.principal].cursor \in Nat
    BY <2>1, ConsumerType DEF Settled
  <2>3. Ahead(stream[r.principal], r, spend[r], enf[r.principal].cursor + 1)
    BY DEF Heard, Seen
  <2>. QED BY <2>2, <2>3 DEF Ahead
<1>4. Spec => []IInv
  BY Inductive
<1>. QED BY <1>1, <1>2, <1>3, <1>4, PTL DEF Spec

-------------------------------------------------------------------------------
(***************************************************************************)
(* Pausing enforcement.                                                    *)
(***************************************************************************)
(* Once no invocation is under way that was started before the switch, a   *)
(* step imposes nothing and starts nothing that could.                     *)
LEMMA PausedStep ==
  ASSUME TypeInv, [Next]_vars, PauseReached, paused'
  PROVE  PauseReached' /\ attached' \subseteq attached
<1>0. paused /\ \A p \in Principals : enf[p].pc = "idle" /\ enf[p].off
  BY DEF PauseReached
<1> DEFINE Same == UNCHANGED enf /\ attached' \subseteq attached
           Rests(p) == /\ attached' = attached
                       /\ enf'[p].pc = "idle" /\ enf'[p].off
                       /\ \A q \in Principals \ {p} : enf'[q] = enf[q]
<1>1. CASE Tick \/ UNCHANGED vars
  BY <1>0, <1>1 DEF Tick, vars, iam, PauseReached
<1>2. ~AdminPause
  BY <1>0 DEF AdminPause
<1>3. ASSUME NEW r \in Rows, MeterWrite(r) PROVE Same
  BY <1>3 DEF MeterWrite, iam
<1>4. ASSUME NEW k \in BudgetKeys, NEW b, AdminBudget(k, b) PROVE Same
  BY <1>4 DEF AdminBudget, iam
<1>5. ASSUME NEW p \in Principals, Finish(p), UNCHANGED attached PROVE Rests(p)
  BY <1>0, <1>5 DEF TypeInv, TypeOK, Finish, Advanced, Consumer
<1>6. ASSUME NEW p \in Principals, EnforcerStep(p) PROVE Rests(p)
  <2>1. ~EnforceCreate(p) /\ ~EnforceGet(p) /\ ~EnforceStamp(p) /\ ~EnforceAttach(p)
          /\ ~EnforceAttachStuck(p)
    BY <1>0 DEF EnforceCreate, EnforceGet, EnforceStamp, EnforceAttach, EnforceAttachStuck
  <2>2. ~EnforceDecide(p)
    <3>. SUFFICES ASSUME EnforceDecide(p) PROVE FALSE
      OBVIOUS
    <3>1. Record(p).row.principal = p /\ Enforceable(Record(p))
      BY RecordTyped DEF EnforceDecide, TypeInv
    <3> QED BY <1>0, <3>1 DEF Enforceable
  <2>3. CASE EnforceSkip(p)
    BY <1>5, <2>3 DEF EnforceSkip, iam
  <2>4. CASE EnforceCheckpoint(p)
    BY <1>0, <2>4 DEF EnforceCheckpoint, Consumer, TypeInv, TypeOK, iam
  <2> QED BY <1>6, <2>1, <2>2, <2>3, <2>4 DEF EnforcerStep
<1>7. ASSUME NEW p \in Principals, EnforceStampLost(p) \/ EnforceFault(p) \/ EnforceCrash(p)
      PROVE  Rests(p)
  <2>1. CASE EnforceStampLost(p)
    BY <1>0, <2>1 DEF EnforceStampLost
  <2>2. CASE EnforceFault(p)
    BY <1>5, <2>2 DEF EnforceFault, iam
  <2>3. CASE EnforceCrash(p)
    BY <1>0, <2>3 DEF EnforceCrash, Consumer, TypeInv, TypeOK, iam
  <2> QED BY <1>7, <2>1, <2>2, <2>3
<1>8. ASSUME NEW x \in Removers, NEW r \in Rows, ReleaseStart(x, r) PROVE Same
  BY <1>8 DEF ReleaseStart, iam
<1>9. ASSUME NEW x \in Removers, NEW d \in Periods,
             ScheduledRollover(x, d) \/ ManualRollover(x, d)
      PROVE  Same
  BY <1>9 DEF ScheduledRollover, ManualRollover, RolloverSnapshot, iam
<1>10. ASSUME NEW x \in Removers, RemoverStep(x) \/ RemoveFault(x) \/ RemoveCrash(x)
       PROVE  Same
  BY <1>10 DEF RemoverStep, RolloverNext, RemoveList, RemoveDetach, RemoveDelete, RemoveClear,
               RemoveFault, RemoveCrash, iam
<1>11. CASE Same
  BY <1>0, <1>11 DEF PauseReached
<1>12. ASSUME NEW p \in Principals, Rests(p) PROVE PauseReached' /\ attached' \subseteq attached
  BY <1>0, <1>12 DEF PauseReached
<1> HIDE DEF Same, Rests
<1> QED BY <1>1, <1>2, <1>3, <1>4, <1>6, <1>7, <1>8, <1>9, <1>10, <1>11, <1>12 DEF Next

(* PausedImposesNothing for any principals, targets and removers: the      *)
(* release runbook works.                                                  *)
THEOREM PauseHolds == Spec => PausedImposesNothing
<1>1. TypeInv /\ [Next]_vars =>
        [PauseReached /\ paused' => PauseReached' /\ attached' \subseteq attached]_vars
  BY PausedStep
<1>2. Spec => []TypeInv
  BY TypeInvInit, TypeInvStep, PTL DEF Spec
<1> QED BY <1>1, <1>2, PTL DEF Spec, PausedImposesNothing
================================================================================
