----------------------------- MODULE MeterJoinProofs -----------------------------
(* Proofs about MeterJoin, for every value of its constants. *)
EXTENDS MeterJoin, FiniteSetTheorems, TLAPS

(***************************************************************************)
(* The operators of a commit.                                              *)
(***************************************************************************)
(* Lines are billed one after the other, and the model line comes first.   *)
LEMMA FirstIn ==
  ASSUME NEW S, S \subseteq Lines, S # {}
  PROVE  /\ First(S) \in S
         /\ "model" \in S => First(S) = "model"
<1> DEFINE P(l) == l \in S /\ \A k \in S : Rank[l] <= Rank[k]
<1> USE DEF Lines, LensLines
<1>1. \A k \in Lines : /\ Rank[k] \in 1..4
                       /\ Rank["model"] <= Rank[k]
                       /\ Rank[k] = Rank["model"] => k = "model"
      /\ Rank["model"] = 1 /\ Rank["profile"] = 2 /\ Rank["sso"] = 3 /\ Rank["source"] = 4
  BY DEF Rank
<1>2. \E l \in S : P(l)
  <2>1. CASE "model" \in S       BY <1>1, <2>1
  <2>2. CASE "model" \notin S /\ "profile" \in S     BY <1>1, <2>2
  <2>3. CASE "model" \notin S /\ "profile" \notin S /\ "sso" \in S  BY <1>1, <2>3
  <2>4. CASE "model" \notin S /\ "profile" \notin S /\ "sso" \notin S
    <3>1. \A k \in S : k = "source"  BY <2>4
    <3>2. \E k \in S : TRUE  OBVIOUS
    <3>3. "source" \in S  BY <3>1, <3>2
    <3> QED BY <1>1, <3>1, <3>3
  <2> QED BY <2>1, <2>2, <2>3, <2>4
<1>3. First(S) \in S /\ \A k \in S : Rank[First(S)] <= Rank[k]
  BY <1>2 DEF First
<1>4. First(S) \in Lines  BY <1>3
<1>5. ASSUME "model" \in S PROVE First(S) = "model"
  <2>1. Rank[First(S)] <= Rank["model"]  BY <1>3, <1>5
  <2> HIDE DEF Lines
  <2> QED BY <1>1, <1>4, <2>1
<1> QED BY <1>3, <1>5

(* A request has the model line whatever its trail says, and with the trail it has
   all of its lines. *)
LEMMA LinesOfModel ==
  ASSUME NEW r \in Requests, NEW b \in BOOLEAN
  PROVE  /\ LinesOf(r, b) \subseteq LinesOf(r, TRUE)
         /\ LinesOf(r, b) \subseteq Lines
         /\ "model" \in LinesOf(r, b)
BY DEF LinesOf, Lines, LensLines

(* The row of a line of a request is a row.                                *)
LEMMA KeyTyped ==
  ASSUME NEW r \in Requests, NEW l \in LinesOf(r, TRUE), NEW o \in Principals
  PROVE  /\ KeyOf(r, l, o) \in Keys
         /\ \A v \in Windows :
              /\ RowOf(KeyOf(r, l, o), v) \in Rows
              /\ LineOf(RowOf(KeyOf(r, l, o), v)) = l
<1>1. CASE l \in {"model", "profile"}
  BY <1>1, OwnersAssumption
     DEF KeyOf, LensLines, Keys, Owners, Targets, RowOf, Rows, LineOf
<1>2. CASE l = "sso"
  <2>1. LensOf["sso"][r] \in SsoUsers
    BY <1>2, RequestsAssumption DEF LinesOf, LensLines
  <2> QED BY <1>2, <2>1, OwnersAssumption
          DEF KeyOf, LensLines, Keys, Owners, Targets, RowOf, Rows, LineOf
<1>3. CASE l = "source"
  <2>1. LensOf["source"][r] \in Sources
    BY <1>3, RequestsAssumption DEF LinesOf, LensLines
  <2> QED BY <1>3, <2>1, OwnersAssumption
          DEF KeyOf, LensLines, Keys, Owners, Targets, RowOf, Rows, LineOf
<1> QED BY <1>1, <1>2, <1>3 DEF LinesOf, Lines, LensLines

(* What an invocation that commits works on.                               *)
LEMMA Committing ==
  ASSUME TypeInv, NEW w \in Meters, meter[w].pc = "commit"
  PROVE  /\ Req(w) \in Requests
         /\ Line(w) \in meter[w].todo
         /\ Line(w) \in LinesOf(Req(w), TRUE)
         /\ "model" \in meter[w].todo => Line(w) = "model"
         /\ LineKey(w) \in Keys
         /\ \A b \in Believed(LineKey(w)) :
              /\ b \in Metas
              /\ RowOf(LineKey(w), b.window) \in Rows
              /\ LineOf(RowOf(LineKey(w), b.window)) = Line(w)
<1>1. /\ meter[w].msg \in Messages
      /\ meter[w].owner \in Principals
      /\ meter[w].todo \subseteq LinesOf(Req(w), TRUE)
      /\ meter[w].todo # {}
  BY DEF TypeInv, Handling, AtWork, Req
<1>2. Req(w) \in Requests  BY <1>1 DEF Req, Messages
<1>3. meter[w].todo \subseteq Lines  BY <1>1, <1>2, LinesOfModel
<1>4. /\ Line(w) \in meter[w].todo
      /\ "model" \in meter[w].todo => Line(w) = "model"
  BY <1>1, <1>3, FirstIn DEF Line
<1>5. Line(w) \in LinesOf(Req(w), TRUE)  BY <1>1, <1>4
<1>6. LineKey(w) \in Keys  BY <1>1, <1>2, <1>5, KeyTyped DEF LineKey
<1>7. \A b \in Believed(LineKey(w)) : b \in Metas
  BY <1>6 DEF TypeInv, TypeOK, Believed
<1>8. \A b \in Believed(LineKey(w)) : b.window \in Windows
  BY <1>7 DEF Metas
<1>9. \A v \in Windows : /\ RowOf(LineKey(w), v) \in Rows
                         /\ LineOf(RowOf(LineKey(w), v)) = Line(w)
  BY <1>1, <1>2, <1>5, KeyTyped DEF LineKey
<1> QED BY <1>2, <1>4, <1>5, <1>6, <1>7, <1>8, <1>9

(***************************************************************************)
(* Types.                                                                  *)
(***************************************************************************)
(* A step of one invocation keeps all invocations typed.                   *)
LEMMA MeterMoves ==
  ASSUME TypeInv, NEW w \in Meters, NEW s \in MeterStates, AtWork(s),
         meter' = [meter EXCEPT ![w] = s]
  PROVE  /\ meter' \in [Meters -> MeterStates]
         /\ (\A v \in Meters : AtWork(meter[v]))'
<1>1. meter \in [Meters -> MeterStates]  BY DEF TypeInv, TypeOK
<1>2. meter' \in [Meters -> MeterStates]  BY <1>1
<1>3. \A v \in Meters : meter'[v] = IF v = w THEN s ELSE meter[v]  BY <1>1
<1>4. \A v \in Meters : AtWork(meter[v])  BY DEF TypeInv, Handling
<1>5. \A v \in Meters : AtWork(meter'[v])  BY <1>3, <1>4
<1> QED BY <1>2, <1>5

(* An idle meter has a typed state. *)
LEMMA IdleTyped == IdleMeter \in MeterStates /\ AtWork(IdleMeter)
BY DEF IdleMeter, MeterStates, MeterPc, AtWork

(* What a commit or a fault leaves behind.                                 *)
LEMMA DoneTyped ==
  ASSUME TypeInv, NEW w \in Meters, meter[w].pc # "idle"
  PROVE  Done(w) \in MeterStates /\ AtWork(Done(w)) /\ Done(w).pc \in {"idle", "delete"}
<1>1. meter[w] \in MeterStates /\ AtWork(meter[w])  BY DEF TypeInv, TypeOK, Handling
<1> QED BY <1>1, IdleTyped DEF Done, IdleMeter, MeterStates, MeterPc, AtWork

(* A meter that goes on with fewer lines has a typed state. *)
LEMMA ProceedTyped ==
  ASSUME TypeInv, NEW w \in Meters, meter[w].pc \in {"commit", "count"},
         NEW rest, rest \subseteq meter[w].todo
  PROVE  Proceed(w, rest) \in MeterStates /\ AtWork(Proceed(w, rest))
<1>1. meter[w] \in MeterStates /\ AtWork(meter[w])  BY DEF TypeInv, TypeOK, Handling
<1>2. CASE rest = {}  BY <1>2, DoneTyped DEF Proceed
<1>3. CASE rest # {}
  BY <1>1, <1>3 DEF Proceed, MeterStates, MeterPc, AtWork
<1> QED BY <1>2, <1>3

(* A use of a bounded event keeps the counters typed. *)
LEMMA UseTyped ==
  ASSUME TypeInv, NEW f \in {"admin", "faults", "crashes", "dups", "expiries"}, Use(f)
  PROVE  used' \in Counts
BY DEF Use, TypeInv, TypeOK, Counts

(* A delivery that is returned to its queue, or given up, keeps the mail typed. *)
LEMMA RetryTyped ==
  ASSUME TypeInv, NEW m \in Messages, Retry(m)
  PROVE  mail' \subseteq Messages /\ sent' \subseteq Letters /\ dlq' \subseteq Letters
<1>1. m.tries < AsyncRetries => [m EXCEPT !.tries = @ + 1] \in Messages
  BY BoundsAssumption DEF Messages
<1>2. Letter(m) \in Letters  BY DEF Letter, Letters, Messages
<1> QED BY <1>1, <1>2 DEF Retry, TypeInv, TypeOK

(* Letters that are sent keep the mail typed. *)
LEMMA SendTyped ==
  ASSUME TypeInv, NEW ls \in SUBSET Letters, Send(ls)
  PROVE  mail' \subseteq Messages /\ sent' \subseteq Letters
<1>1. \A l \in Letters : Fresh(l) \in Messages
  BY BoundsAssumption DEF Letters, Messages, Fresh
<1> QED BY <1>1 DEF Send, TypeInv, TypeOK

(* The types hold at first. *)
LEMMA InitTyped == Init => TypeInv
<1> SUFFICES ASSUME Init PROVE TypeInv  OBVIOUS
<1>1. TypeOK
  BY IdleTyped, BudgetsAssumption
     DEF Init, TypeOK, IdleTracer, TracerStates, TracerPc, Counts
<1>2. Handling
  BY IdleTyped DEF Init, Handling, IdleTracer
<1> QED BY <1>1, <1>2 DEF TypeInv

(* The meter's own steps.                                                  *)
LEMMA MeterTyped ==
  ASSUME TypeInv, NEW w \in Meters, MeterRuns(w) \/ MeterFails(w)
  PROVE  TypeInv'
<1> USE DEF post, join, ledger, budgets
<1>0. /\ meter[w] \in MeterStates /\ AtWork(meter[w])
      /\ meter[w].pc # "idle" => meter[w].msg \in Messages /\ Req(w) \in Requests
  BY DEF TypeInv, TypeOK, Handling, AtWork, Req, Messages
(* Every step but a commit leaves the spend table alone.                   *)
<1> DEFINE Rest1 == /\ identity' \subseteq Requests /\ pending' \subseteq Requests
                    /\ mail' \subseteq Messages /\ sent' \subseteq Letters
                    /\ dlq' \subseteq Letters /\ used' \in Counts
                    /\ bucket' \in [Owners -> Nat]
                    /\ spend' \in [Rows -> Nat]
                    /\ processed' \in [Rows -> SUBSET Requests]
                    /\ UNCHANGED <<budgets, lastSeen, tracer>>
<1>a. ASSUME Rest1, NEW s \in MeterStates, AtWork(s), meter' = [meter EXCEPT ![w] = s]
      PROVE  TypeInv'
  <2>1. /\ meter' \in [Meters -> MeterStates]
        /\ \A v \in Meters : AtWork(meter'[v])
    BY <1>a, MeterMoves
  <2>2. TypeOK'  BY <1>a, <2>1 DEF TypeInv, TypeOK
  <2>3. Handling'  BY <1>a, <2>1 DEF TypeInv, Handling
  <2> QED BY <2>2, <2>3 DEF TypeInv
<1>s. meter = [meter EXCEPT ![w] = meter[w]]
  BY DEF TypeInv, TypeOK
<1>b. ASSUME NEW r \in Requests, NEW b \in BOOLEAN, NEW o \in Principals,
             meter[w].pc # "idle", r = Req(w)
      PROVE  LET s == [meter[w] EXCEPT !.pc = "commit", !.owner = o, !.todo = LinesOf(r, b)]
             IN  s \in MeterStates /\ AtWork(s)
  <2>1. LinesOf(r, b) \subseteq LinesOf(r, TRUE) /\ LinesOf(r, b) \subseteq Lines
        /\ LinesOf(r, b) # {}
    BY LinesOfModel
  <2> QED BY <1>0, <1>b, <2>1 DEF MeterStates, MeterPc, AtWork, Req, Owners
<1>1. ASSUME NEW m \in mail, MeterSkip(w, m) PROVE TypeInv'
  <2>1. Rest1  BY <1>1 DEF MeterSkip, Take, TypeInv, TypeOK
  <2> QED BY <1>a, <1>s, <1>0, <1>1, <2>1 DEF MeterSkip
<1>2. ASSUME NEW m \in mail, MeterTake(w, m) PROVE TypeInv'
  <2>1. Rest1  BY <1>2 DEF MeterTake, Take, TypeInv, TypeOK
  <2> DEFINE s == [IdleMeter EXCEPT !.pc = IF m.kind = "log" THEN "identify" ELSE "fetch",
                                    !.msg = m]
  <2>2. m \in Messages /\ m.kind \in {"log", "arrived"}  BY <1>2 DEF MeterTake, TypeInv, TypeOK
  <2>3. s \in MeterStates /\ AtWork(s)
    BY <2>2 DEF IdleMeter, MeterStates, MeterPc, AtWork
  <2>4. meter' = [meter EXCEPT ![w] = s]  BY <1>2 DEF MeterTake
  <2> HIDE DEF s
  <2> QED BY <1>a, <2>1, <2>3, <2>4
<1>3. ASSUME MeterIdentify(w) PROVE TypeInv'
  <2>1. Rest1  BY <1>3 DEF MeterIdentify, TypeInv, TypeOK
  <2>2. meter[w].pc = "identify" /\ Req(w) \in Requests  BY <1>0, <1>3 DEF MeterIdentify
  <2>3. CASE Req(w) \in identity
    <3>1. CtOwner[Req(w)] \in Principals  BY <2>2, RequestsAssumption
    <3>2. meter' = [meter EXCEPT ![w] = [meter[w] EXCEPT !.pc = "commit",
                      !.owner = CtOwner[Req(w)], !.todo = LinesOf(Req(w), TRUE)]]
      BY <1>3, <2>3 DEF MeterIdentify, Bill, TypeInv, TypeOK
    <3> QED BY <1>a, <1>b, <2>1, <2>2, <3>1, <3>2
  <2>4. CASE Req(w) \notin identity /\ LogOwner[Req(w)] # NoOwner
    <3>1. LogOwner[Req(w)] \in Principals  BY <2>2, <2>4, RequestsAssumption
    <3>2. meter' = [meter EXCEPT ![w] = [meter[w] EXCEPT !.pc = "commit",
                      !.owner = LogOwner[Req(w)], !.todo = LinesOf(Req(w), FALSE)]]
      BY <1>3, <2>4 DEF MeterIdentify, Bill, TypeInv, TypeOK
    <3> QED BY <1>a, <1>b, <2>1, <2>2, <3>1, <3>2
  <2>5. CASE Req(w) \notin identity /\ LogOwner[Req(w)] = NoOwner
    <3> DEFINE s == [meter[w] EXCEPT !.pc = "park"]
    <3>1. s \in MeterStates /\ AtWork(s)
      BY <1>0, <2>2 DEF MeterStates, MeterPc, AtWork
    <3>2. meter' = [meter EXCEPT ![w] = s]
      BY <1>3, <2>5 DEF MeterIdentify, TypeInv, TypeOK
    <3> HIDE DEF s
    <3> QED BY <1>a, <2>1, <3>1, <3>2
  <2> QED BY <2>3, <2>4, <2>5
<1>4. ASSUME MeterPark(w) PROVE TypeInv'
  <2>1. Rest1  BY <1>0, <1>4 DEF MeterPark, TypeInv, TypeOK
  <2> QED BY <1>a, <1>4, <2>1, IdleTyped DEF MeterPark
<1>5. ASSUME MeterFetch(w) PROVE TypeInv'
  <2>1. Rest1  BY <1>5 DEF MeterFetch, TypeInv, TypeOK
  <2> DEFINE s == [meter[w] EXCEPT !.pc = "lookup"]
  <2>2. s \in MeterStates /\ AtWork(s)
    BY <1>0, <1>5 DEF MeterFetch, MeterStates, MeterPc, AtWork
  <2>3. meter' = [meter EXCEPT ![w] = s] \/ meter' = [meter EXCEPT ![w] = IdleMeter]
    BY <1>5 DEF MeterFetch
  <2> HIDE DEF s
  <2> QED BY <1>a, <2>1, <2>2, <2>3, IdleTyped
<1>6. ASSUME MeterLookup(w) PROVE TypeInv'
  <2>1. Rest1  BY <1>6 DEF MeterLookup, TypeInv, TypeOK
  <2>2. meter[w].pc # "idle" /\ Req(w) \in Requests  BY <1>0, <1>6 DEF MeterLookup
  <2>3. CtOwner[Req(w)] \in Principals  BY <2>2, RequestsAssumption
  <2>4. meter' = [meter EXCEPT ![w] = [meter[w] EXCEPT !.pc = "commit",
          !.owner = CtOwner[Req(w)], !.todo = LinesOf(Req(w), Req(w) \in identity)]]
    BY <1>6 DEF MeterLookup, Bill, TypeInv, TypeOK
  <2>5. (Req(w) \in identity) \in BOOLEAN  OBVIOUS
  <2> QED BY <1>a, <1>b, <2>1, <2>2, <2>3, <2>4, <2>5
<1>7. ASSUME MeterDelete(w) PROVE TypeInv'
  <2>1. Rest1  BY <1>7 DEF MeterDelete, TypeInv, TypeOK
  <2> QED BY <1>a, <1>7, <2>1, IdleTyped DEF MeterDelete
<1>8. ASSUME MeterCharge(w) PROVE TypeInv'
  <2>1. meter[w].pc = "commit"  BY <1>8 DEF MeterCharge
  <2>2. PICK b \in Believed(LineKey(w)) :
          LET row == RowOf(LineKey(w), b.window) IN
          /\ processed' = [processed EXCEPT ![row] = @ \union {Req(w)}]
          /\ spend' = [spend EXCEPT ![row] = @ + Price(meter[w].msg)]
          /\ meter' = [meter EXCEPT ![w] =
               IF b.rated /\ Line(w) \notin LensLines
               THEN [@ EXCEPT !.pc = "count", !.todo = Rest(w)]
               ELSE Proceed(w, Rest(w))]
    BY <1>8 DEF MeterCharge
  <2>3. Req(w) \in Requests /\ RowOf(LineKey(w), b.window) \in Rows
    BY <2>1, Committing
  <2> DEFINE row == RowOf(LineKey(w), b.window)
  <2>9. row \in Rows /\ Price(meter[w].msg) \in Nat  BY <2>3 DEF Price
  <2>10. /\ processed' = [processed EXCEPT ![row] = @ \union {Req(w)}]
         /\ spend' = [spend EXCEPT ![row] = @ + Price(meter[w].msg)]
    BY <2>2
  <2> HIDE DEF row
  <2>11. spend' \in [Rows -> Nat] /\ processed' \in [Rows -> SUBSET Requests]
    BY <2>3, <2>9, <2>10 DEF TypeInv, TypeOK
  <2>4. Rest1
    BY <1>8, <2>11 DEF MeterCharge, TypeInv, TypeOK
  <2>5. Rest(w) \subseteq meter[w].todo  BY DEF Rest
  <2> DEFINE s == [meter[w] EXCEPT !.pc = "count", !.todo = Rest(w)]
  <2>6. s \in MeterStates /\ AtWork(s)
    BY <1>0, <2>1, <2>5 DEF MeterStates, MeterPc, AtWork
  <2>7. Proceed(w, Rest(w)) \in MeterStates /\ AtWork(Proceed(w, Rest(w)))
    BY <2>1, <2>5, ProceedTyped
  <2>8. meter' = [meter EXCEPT ![w] = s] \/ meter' = [meter EXCEPT ![w] = Proceed(w, Rest(w))]
    BY <2>2
  <2> HIDE DEF s
  <2> QED BY <1>a, <2>4, <2>6, <2>7, <2>8
<1>9. ASSUME MeterCharged(w) PROVE TypeInv'
  <2>1. Rest1  BY <1>9 DEF MeterCharged, TypeInv, TypeOK
  <2>2. Rest(w) \subseteq meter[w].todo  BY DEF Rest
  <2>3. Proceed(w, Rest(w)) \in MeterStates /\ AtWork(Proceed(w, Rest(w)))
    BY <1>9, <2>2, ProceedTyped DEF MeterCharged
  <2> QED BY <1>a, <1>9, <2>1, <2>3 DEF MeterCharged
<1>10. ASSUME MeterRefused(w) PROVE TypeInv'
  <2>1. Rest1  BY <1>10 DEF MeterRefused, TypeInv, TypeOK
  <2> QED BY <1>a, <1>10, <2>1, DoneTyped DEF MeterRefused
<1>11. ASSUME MeterCount(w) PROVE TypeInv'
  <2>1. meter[w].owner \in Owners  BY <1>0, <1>11 DEF MeterCount, AtWork, Owners
  <2>2. Rest1  BY <1>11, <2>1 DEF MeterCount, TypeInv, TypeOK
  <2>3. Proceed(w, meter[w].todo) \in MeterStates /\ AtWork(Proceed(w, meter[w].todo))
    BY <1>11, ProceedTyped DEF MeterCount
  <2> QED BY <1>a, <1>11, <2>2, <2>3 DEF MeterCount
<1>12. ASSUME MeterCountFails(w) PROVE TypeInv'
  <2>1. Rest1  BY <1>12, UseTyped DEF MeterCountFails, TypeInv, TypeOK
  <2>2. Proceed(w, meter[w].todo) \in MeterStates /\ AtWork(Proceed(w, meter[w].todo))
    BY <1>12, ProceedTyped DEF MeterCountFails
  <2> QED BY <1>a, <1>12, <2>1, <2>2 DEF MeterCountFails
<1>13. ASSUME MeterFault(w) PROVE TypeInv'
  <2>1. Rest1  BY <1>13, UseTyped DEF MeterFault, TypeInv, TypeOK
  <2> QED BY <1>a, <1>13, <2>1, DoneTyped DEF MeterFault
<1>14. ASSUME MeterCrash(w) PROVE TypeInv'
  <2>1. mail' \subseteq Messages /\ sent' \subseteq Letters /\ dlq' \subseteq Letters
    BY <1>0, <1>14, RetryTyped DEF MeterCrash
  <2>2. Rest1  BY <1>14, <2>1, UseTyped DEF MeterCrash, TypeInv, TypeOK
  <2> QED BY <1>a, <1>14, <2>2, IdleTyped DEF MeterCrash
<1> QED
  BY <1>1, <1>2, <1>3, <1>4, <1>5, <1>6, <1>7, <1>8, <1>9, <1>10, <1>11, <1>12,
     <1>13, <1>14 DEF MeterRuns, MeterFails

(* The identity cache's steps.                                             *)
LEMMA TracerTyped ==
  ASSUME TypeInv, NEW x \in Tracers, TracerRuns(x) \/ TracerFails(x)
  PROVE  TypeInv'
<1> USE DEF post, join, ledger, budgets
<1>0. /\ tracer[x] \in TracerStates
      /\ tracer[x].pc # "idle" => /\ tracer[x].msg \in Messages
                                 /\ tracer[x].msg.req \in Requests
  BY DEF TypeInv, TypeOK, Handling, Messages
<1> DEFINE Rest1 == /\ identity' \subseteq Requests /\ pending' \subseteq Requests
                    /\ mail' \subseteq Messages /\ sent' \subseteq Letters
                    /\ dlq' \subseteq Letters /\ used' \in Counts
                    /\ lastSeen' \in [Principals -> Nat]
                    /\ UNCHANGED <<spend, processed, bucket, budgets, meter>>
<1>a. ASSUME Rest1, NEW s \in TracerStates, s.pc # "idle" => s.msg \in Messages,
             tracer' = [tracer EXCEPT ![x] = s]
      PROVE  TypeInv'
  <2>1. TypeOK'  BY <1>a DEF TypeInv, TypeOK
  <2>2. Handling'  BY <1>a DEF TypeInv, TypeOK, Handling, AtWork, LinesOf
  <2> QED BY <2>1, <2>2 DEF TypeInv
<1>b. ASSUME Rest1, NEW pc \in TracerPc, tracer[x].pc # "idle", Goto(x, pc)
      PROVE  TypeInv'
  <2> DEFINE s == [tracer[x] EXCEPT !.pc = pc]
  <2>1. s \in TracerStates /\ s.msg \in Messages
    BY <1>0, <1>b DEF TracerStates
  <2>2. tracer' = [tracer EXCEPT ![x] = s]  BY <1>b DEF Goto
  <2> HIDE DEF s
  <2> QED BY <1>a, <1>b, <2>1, <2>2
<1>c. ASSUME Rest1, Finish(x) PROVE TypeInv'
  <2>1. IdleTracer \in TracerStates /\ IdleTracer.pc = "idle"
    BY DEF IdleTracer, TracerStates, TracerPc
  <2> QED BY <1>a, <1>c, <2>1 DEF Finish
<1>1. ASSUME NEW m \in mail, TracerTake(x, m) PROVE TypeInv'
  <2>1. Rest1  BY <1>1 DEF TracerTake, Take, TypeInv, TypeOK
  <2>2. m \in Messages  BY <1>1 DEF TypeInv, TypeOK
  <2>3. [pc |-> "note", msg |-> m] \in TracerStates
    BY <2>2 DEF TracerStates, TracerPc
  <2> QED BY <1>a, <1>1, <2>1, <2>2, <2>3 DEF TracerTake
<1>2. ASSUME TracerNote(x) PROVE TypeInv'
  <2>1. Rest1  BY <1>0, <1>2 DEF TracerNote, TypeInv, TypeOK
  <2> QED BY <1>b, <1>2, <2>1 DEF TracerNote, TracerPc
<1>3. ASSUME TracerSee(x) PROVE TypeInv'
  <2>1. tracer[x].msg.req \in Requests  BY <1>0, <1>3 DEF TracerSee
  <2>2. TimeOf[tracer[x].msg.req] \in Nat /\ CtOwner[tracer[x].msg.req] \in Principals
    BY <2>1, RequestsAssumption
  <2>3. Rest1  BY <1>3, <2>2 DEF TracerSee, TypeInv, TypeOK
  <2> QED BY <1>b, <1>3, <2>3 DEF TracerSee, TracerPc
<1>4. ASSUME TracerLook(x) PROVE TypeInv'
  <2>1. Rest1  BY <1>4 DEF TracerLook, TypeInv, TypeOK
  <2> QED BY <1>b, <1>c, <1>4, <2>1 DEF TracerLook, TracerPc
<1>5. ASSUME TracerLookFails(x) PROVE TypeInv'
  <2>1. Rest1  BY <1>5, UseTyped DEF TracerLookFails, TypeInv, TypeOK
  <2> QED BY <1>c, <1>5, <2>1 DEF TracerLookFails
<1>6. ASSUME TracerEmit(x) PROVE TypeInv'
  <2>1. [kind |-> "arrived", req |-> tracer[x].msg.req] \in Letters
    BY <1>0, <1>6 DEF TracerEmit, Letters, Kinds
  <2>2. mail' \subseteq Messages /\ sent' \subseteq Letters
    BY <1>6, <2>1, SendTyped DEF TracerEmit
  <2>3. Rest1  BY <1>6, <2>2 DEF TracerEmit, TypeInv, TypeOK
  <2> QED BY <1>c, <1>6, <2>3 DEF TracerEmit
<1>7. ASSUME TracerCrash(x) PROVE TypeInv'
  <2>1. mail' \subseteq Messages /\ sent' \subseteq Letters /\ dlq' \subseteq Letters
    BY <1>0, <1>7, RetryTyped DEF TracerCrash
  <2>2. Rest1  BY <1>7, <2>1, UseTyped DEF TracerCrash, TypeInv, TypeOK
  <2> QED BY <1>c, <1>7, <2>2 DEF TracerCrash
<1> QED BY <1>1, <1>2, <1>3, <1>4, <1>5, <1>6, <1>7 DEF TracerRuns, TracerFails

(* Requests, operators, administrators and the passing of time.            *)
LEMMA SurroundingsTyped ==
  ASSUME TypeInv, Surroundings
  PROVE  TypeInv' /\ UNCHANGED <<ledger, meter>>
<1> USE DEF post, join, budgets
<1> DEFINE Rest1 == /\ identity' \subseteq Requests /\ pending' \subseteq Requests
                    /\ mail' \subseteq Messages /\ sent' \subseteq Letters
                    /\ used' \in Counts
                    /\ budget' \in [Keys -> Metas]
                    /\ cached' \in [Keys -> SUBSET Metas]
                    /\ UNCHANGED <<dlq, ledger, bucket, lastSeen, meter, tracer>>
<1>a. ASSUME Rest1 PROVE TypeInv' /\ UNCHANGED <<ledger, meter>>
  <2>1. TypeOK'  BY <1>a DEF TypeInv, TypeOK, ledger
  <2>2. Handling'  BY <1>a DEF TypeInv, Handling, AtWork, LinesOf
  <2> QED BY <1>a, <2>1, <2>2 DEF TypeInv
<1>1. ASSUME NEW r \in Requests, Invoke(r) PROVE Rest1
  <2> DEFINE ls == {l \in Letters : /\ l.req = r
                                   /\ \/ l.kind = "log"
                                      \/ l.kind = "opening" /\ r \in Streamed
                                      \/ l.kind = "trail" /\ r \in Traced}
  <2>1. ls \in SUBSET Letters /\ Send(ls)  BY <1>1 DEF Invoke
  <2> HIDE DEF ls
  <2>2. mail' \subseteq Messages /\ sent' \subseteq Letters  BY <2>1, SendTyped
  <2> QED BY <1>1, <2>2 DEF Invoke, TypeInv, TypeOK
<1>2. ASSUME NEW r \in Requests, DrainScript(r) PROVE Rest1
  <2> DEFINE ls == {[kind |-> "arrived", req |-> r]}
  <2>1. ls \in SUBSET Letters /\ Send(ls)
    BY <1>2 DEF DrainScript, Letters, Kinds
  <2> HIDE DEF ls
  <2>2. mail' \subseteq Messages /\ sent' \subseteq Letters  BY <2>1, SendTyped
  <2> QED BY <1>2, <2>2 DEF DrainScript, TypeInv, TypeOK
<1>3. ASSUME NEW r \in Requests, ExpireIdentity(r) PROVE Rest1
  BY <1>3, UseTyped DEF ExpireIdentity, TypeInv, TypeOK
<1>4. ASSUME NEW r \in Requests, ExpirePending(r) PROVE Rest1
  BY <1>4, UseTyped DEF ExpirePending, TypeInv, TypeOK
<1>5. ASSUME NEW l \in sent, Redeliver(l) PROVE Rest1
  <2>1. Fresh(l) \in Messages
    BY <1>5, BoundsAssumption DEF TypeInv, TypeOK, Letters, Messages, Fresh
  <2> QED BY <1>5, <2>1, UseTyped DEF Redeliver, TypeInv, TypeOK
<1>6. ASSUME NEW k \in Keys, NEW b \in Metas, AdminBudget(k, b) PROVE Rest1
  BY <1>6, UseTyped DEF AdminBudget, TypeInv, TypeOK
<1>7. ASSUME NEW k \in Keys, CachesExpire(k) PROVE Rest1
  BY <1>7 DEF CachesExpire, TypeInv, TypeOK
<1>8. ASSUME NEW k \in Keys, BudgetReadFails(k) PROVE Rest1
  <2>1. [window |-> DefaultWindow, rated |-> FALSE] \in Metas
    BY BudgetsAssumption DEF Metas
  <2> QED BY <1>8, <2>1, UseTyped DEF BudgetReadFails, TypeInv, TypeOK
<1> HIDE DEF Rest1
<1> QED BY <1>a, <1>1, <1>2, <1>3, <1>4, <1>5, <1>6, <1>7, <1>8 DEF Surroundings

(* Every step keeps the types. *)
LEMMA NextTyped == TypeInv /\ [Next]_vars => TypeInv'
<1> SUFFICES ASSUME TypeInv, [Next]_vars PROVE TypeInv'  OBVIOUS
<1>1. CASE UNCHANGED vars
  BY <1>1 DEF vars, post, join, ledger, budgets, TypeInv, TypeOK, Handling,
              AtWork, LinesOf
<1>2. CASE Next
  BY <1>2, MeterTyped, TracerTyped, SurroundingsTyped DEF Next
<1> QED BY <1>1, <1>2

(* The types of all variables, for any constants and any interleaving.     *)
THEOREM TypeCorrect == Spec => []TypeOK
<1>1. TypeInv => TypeOK  BY DEF TypeInv
<1> QED BY <1>1, InitTyped, NextTyped, PTL DEF Spec

(***************************************************************************)
(* The bill of a row.                                                      *)
(***************************************************************************)
(* Billed, of any contents of the table.                                   *)
BilledIn(r, table) ==
  \E row \in Rows : row.target = "model" /\ row.owner \in Principals /\ r \in table[row]

(* Who is billed, and the parts of the invariant about it, in terms of the rows
   alone. *)
LEMMA BilledIs ==
  /\ \A r : Billed(r) <=> BilledIn(r, processed)
  /\ PastModel <=> \A w \in Meters :
       meter[w].pc \in {"commit", "count"} /\ "model" \notin meter[w].todo
         => BilledIn(meter[w].msg.req, processed)
  /\ PrimaryFirst <=>
       \A row \in Rows : \A r \in processed[row] : BilledIn(r, processed)
BY DEF Billed, BilledOn, BilledIn, PastModel, PrimaryFirst, Req

(* The same of the state after a step. *)
LEMMA BilledIsNext ==
  /\ PastModel' <=> \A w \in Meters :
       meter'[w].pc \in {"commit", "count"} /\ "model" \notin meter'[w].todo
         => BilledIn(meter'[w].msg.req, processed')
  /\ PrimaryFirst' <=>
       \A row \in Rows : \A r \in processed'[row] : BilledIn(r, processed')
BY DEF Billed, BilledOn, BilledIn, PastModel, PrimaryFirst, Req

(* Nothing that is on the bill is taken off it.                            *)
LEMMA BilledStays ==
  ASSUME NEW r, NEW old, NEW new, BilledIn(r, old),
         \A row \in Rows : old[row] \subseteq new[row]
  PROVE  BilledIn(r, new)
BY DEF BilledIn

(* The model line of a principal's request goes to a model row of his.     *)
LEMMA ModelRow ==
  ASSUME TypeInv, NEW w \in Meters, meter[w].pc = "commit", Line(w) = "model",
         NEW v
  PROVE  /\ RowOf(LineKey(w), v).target = "model"
         /\ RowOf(LineKey(w), v).owner \in Principals
<1>1. meter[w].owner \in Principals  BY DEF TypeInv, Handling, AtWork
<1> QED BY <1>1 DEF RowOf, LineKey, KeyOf, LensLines

(* A request whose next row has it already is on the bill.                 *)
LEMMA ChargedBilled ==
  ASSUME IInv, NEW w \in Meters, MeterCharged(w)
  PROVE  BilledIn(Req(w), processed)
<1>1. TypeInv /\ meter[w].pc = "commit"  BY DEF IInv, MeterCharged
<1>2. PICK b \in Believed(LineKey(w)) :
        Req(w) \in processed[RowOf(LineKey(w), b.window)]
  BY DEF MeterCharged
<1>3. RowOf(LineKey(w), b.window) \in Rows  BY <1>1, Committing
<1> QED BY <1>2, <1>3, BilledIs DEF IInv

(* A step that writes no row.                                              *)
LEMMA NoCharge ==
  ASSUME IInv, TypeInv', UNCHANGED ledger, PastModel'
  PROVE  IInv'
<1>1. UNCHANGED <<spend, processed>>  BY DEF ledger
<1>2. BilledInFull'  BY <1>1 DEF IInv, BilledInFull
<1>3. PrimaryFirst'  BY <1>1, BilledIs, BilledIsNext DEF IInv
<1> QED BY <1>2, <1>3 DEF IInv

(* One invocation moves and no row is written.                             *)
LEMMA PastModelMoves ==
  ASSUME IInv, NEW w \in Meters, NEW s, UNCHANGED processed,
         meter' = [meter EXCEPT ![w] = s],
         s.pc \in {"commit", "count"} /\ "model" \notin s.todo
           => BilledIn(s.msg.req, processed)
  PROVE  PastModel'
<1>1. meter \in [Meters -> MeterStates]  BY DEF IInv, TypeInv, TypeOK
<1>2. \A v \in Meters : meter'[v] = IF v = w THEN s ELSE meter[v]  BY <1>1
<1> QED BY <1>2, BilledIs, BilledIsNext DEF IInv

(* The one step that writes a row.                                         *)
LEMMA ChargeStep ==
  ASSUME IInv, NEW w \in Meters, MeterCharge(w), TypeInv'
  PROVE  IInv'
<1>1. /\ TypeInv /\ PastModel
      /\ meter[w].pc = "commit"
      /\ meter[w].msg \in Messages
      /\ Price(meter[w].msg) = 1
  BY DEF IInv, TypeInv, Handling, AtWork, MeterCharge, Price
<1>2. PICK b \in Believed(LineKey(w)) :
        LET row == RowOf(LineKey(w), b.window) IN
        /\ Req(w) \notin processed[row]
        /\ processed' = [processed EXCEPT ![row] = @ \union {Req(w)}]
        /\ spend' = [spend EXCEPT ![row] = @ + Price(meter[w].msg)]
        /\ meter' = [meter EXCEPT ![w] =
             IF b.rated /\ Line(w) \notin LensLines
             THEN [@ EXCEPT !.pc = "count", !.todo = Rest(w)]
             ELSE Proceed(w, Rest(w))]
  BY DEF MeterCharge
<1>p. PICK r \in Requests : r = Req(w)  BY <1>1, Committing
<1>q. PICK row \in Rows : row = RowOf(LineKey(w), b.window)  BY <1>1, Committing
<1>4. /\ r \notin processed[row]
      /\ processed' = [processed EXCEPT ![row] = @ \union {r}]
      /\ spend' = [spend EXCEPT ![row] = @ + 1]
  BY <1>1, <1>2, <1>p, <1>q
<1>5. /\ processed \in [Rows -> SUBSET Requests] /\ spend \in [Rows -> Nat]
      /\ meter \in [Meters -> MeterStates]
  BY <1>1 DEF TypeInv, TypeOK
<1>6. \A q \in Rows : processed'[q] = IF q = row THEN processed[q] \union {r}
                                                  ELSE processed[q]
  BY <1>4, <1>5
<1>7. \A q : BilledIn(q, processed) => BilledIn(q, processed')  BY <1>6, BilledStays
<1>8. BilledIn(r, processed')
  <2>1. CASE "model" \notin meter[w].todo
    BY <1>1, <1>p, <1>7, <2>1, BilledIs DEF Req
  <2>2. CASE "model" \in meter[w].todo
    <3>1. row.target = "model" /\ row.owner \in Principals
      BY <1>1, <1>q, <2>2, Committing, ModelRow
    <3> QED BY <1>6, <3>1 DEF BilledIn
  <2> QED BY <2>1, <2>2
<1>9. BilledInFull'
  <2> SUFFICES ASSUME NEW q \in Rows PROVE spend'[q] = Cardinality(processed'[q])
    BY DEF BilledInFull
  <2>1. spend[q] = Cardinality(processed[q])  BY DEF IInv, BilledInFull
  <2>2. CASE q # row  BY <1>4, <1>5, <1>6, <2>1, <2>2
  <2>3. CASE q = row
    <3>1. IsFiniteSet(processed[q])
      BY <1>5, FS_Subset, RequestsAssumption
    <3>2. Cardinality(processed[q] \union {r}) = Cardinality(processed[q]) + 1
      BY <1>4, <2>3, <3>1, FS_AddElement
    <3>3. spend'[q] = spend[q] + 1  BY <1>4, <1>5, <2>3
    <3> QED BY <1>6, <2>1, <2>3, <3>2, <3>3
  <2> QED BY <2>2, <2>3
<1>10. PrimaryFirst'
  <2> SUFFICES ASSUME NEW q \in Rows, NEW x \in processed'[q]
               PROVE  BilledIn(x, processed')
    BY BilledIsNext
  <2>1. x = r \/ x \in processed[q]  BY <1>6
  <2>2. x \in processed[q] => BilledIn(x, processed)  BY BilledIs DEF IInv
  <2> QED BY <1>7, <1>8, <2>1, <2>2
<1>11. PastModel'
  <2>1. \A v \in Meters \ {w} : meter'[v] = meter[v]  BY <1>2, <1>5
  <2>2. meter'[w] = [meter[w] EXCEPT !.pc = "count", !.todo = Rest(w)]
        \/ meter'[w] = Proceed(w, Rest(w))
    BY <1>2, <1>5
  <2>3. meter'[w].pc \in {"commit", "count"} => meter'[w].msg = meter[w].msg
    <3>1. meter[w] \in MeterStates  BY <1>5
    <3>2. CASE meter'[w] = [meter[w] EXCEPT !.pc = "count", !.todo = Rest(w)]
      BY <3>1, <3>2 DEF MeterStates
    <3>3. CASE meter'[w] = Proceed(w, Rest(w))
      BY <3>1, <3>3 DEF MeterStates, Proceed, Done, IdleMeter
    <3> QED BY <2>2, <3>2, <3>3
  <2>4. ASSUME NEW v \in Meters, meter'[v].pc \in {"commit", "count"},
               "model" \notin meter'[v].todo
        PROVE  BilledIn(meter'[v].msg.req, processed')
    <3>1. CASE v = w  BY <1>8, <1>p, <2>3, <2>4, <3>1 DEF Req
    <3>2. CASE v # w  BY <1>1, <1>7, <2>1, <2>4, <3>2, BilledIs
    <3> QED BY <3>1, <3>2
  <2> QED BY <2>4, BilledIsNext
<1> QED BY <1>9, <1>10, <1>11 DEF IInv

(* The meter's other steps: who starts a commit starts at the model row,   *)
(* and who goes on has it behind.                                          *)
LEMMA MeterKeeps ==
  ASSUME IInv, NEW w \in Meters, MeterRuns(w) \/ MeterFails(w)
  PROVE  IInv'
<1> USE DEF ledger
<1>0. /\ TypeInv /\ TypeInv'
      /\ meter \in [Meters -> MeterStates] /\ meter[w] \in MeterStates
      /\ meter[w].pc # "idle" => Req(w) \in Requests
      /\ meter[w].pc \in {"commit", "count"} /\ "model" \notin meter[w].todo
           => BilledIn(Req(w), processed)
  <2>1. TypeInv /\ TypeInv'  BY MeterTyped DEF IInv
  <2>2. meter \in [Meters -> MeterStates] /\ meter[w] \in MeterStates
    BY <2>1 DEF TypeInv, TypeOK
  <2>3. meter[w].pc # "idle" => Req(w) \in Requests
    BY <2>1 DEF TypeInv, Handling, AtWork, Req, Messages
  <2>4. meter[w].pc \in {"commit", "count"} /\ "model" \notin meter[w].todo
           => BilledIn(Req(w), processed)
    BY BilledIs DEF IInv, Req
  <2> QED BY <2>1, <2>2, <2>3, <2>4
<1>a. ASSUME UNCHANGED ledger, NEW s, meter' = [meter EXCEPT ![w] = s],
             s.pc \in {"commit", "count"} /\ "model" \notin s.todo
               => BilledIn(s.msg.req, processed)
      PROVE  IInv'
  <2>1. UNCHANGED processed  BY <1>a
  <2>2. PastModel'  BY <1>a, <2>1, PastModelMoves
  <2> QED BY <1>0, <1>a, <2>2, NoCharge
<1>b. ASSUME NEW o, NEW lensed \in BOOLEAN, Req(w) \in Requests, Bill(w, o, lensed),
             UNCHANGED ledger
      PROVE  IInv'
  <2> DEFINE s == [meter[w] EXCEPT !.pc = "commit", !.owner = o,
                                   !.todo = LinesOf(Req(w), lensed)]
  <2>1. meter' = [meter EXCEPT ![w] = s]  BY <1>0, <1>b DEF Bill
  <2>2. "model" \in LinesOf(Req(w), lensed)  BY <1>b, LinesOfModel
  <2>3. "model" \in s.todo  BY <1>0, <2>2 DEF MeterStates
  <2> HIDE DEF s
  <2> QED BY <1>a, <1>b, <2>1, <2>3
<1>c. ASSUME NEW pc \in {"idle", "park", "identify", "fetch", "lookup", "delete"},
             NEW s, s.pc = pc, meter' = [meter EXCEPT ![w] = s], UNCHANGED ledger
      PROVE  IInv'
  BY <1>a, <1>c
<1>d. IdleMeter.pc = "idle" /\ Done(w).pc \in {"idle", "delete"}
  BY <1>0 DEF IdleMeter, Done, MeterStates
<1>e. ASSUME NEW rest \in SUBSET meter[w].todo, meter[w].pc \in {"commit", "count"},
             BilledIn(Req(w), processed) \/ rest = meter[w].todo,
             meter' = [meter EXCEPT ![w] = Proceed(w, rest)], UNCHANGED ledger
      PROVE  IInv'
  <2>1. CASE rest = {}
    BY <1>c, <1>d, <1>e, <2>1 DEF Proceed
  <2>2. CASE rest # {}
    <3> DEFINE s == [meter[w] EXCEPT !.pc = "commit", !.todo = rest]
    <3>1. s.todo = rest /\ s.msg.req = Req(w)  BY <1>0 DEF MeterStates, Req
    <3>2. meter' = [meter EXCEPT ![w] = s]  BY <1>e, <2>2 DEF Proceed
    <3> HIDE DEF s
    <3> QED BY <1>0, <1>a, <1>e, <3>1, <3>2
  <2> QED BY <2>1, <2>2
<1>1. ASSUME NEW m \in mail, MeterSkip(w, m) PROVE IInv'
  <2>1. PastModel'  BY <1>1, BilledIs, BilledIsNext DEF MeterSkip, IInv
  <2> QED BY <1>0, <1>1, <2>1, NoCharge DEF MeterSkip
<1>2. ASSUME NEW m \in mail, MeterTake(w, m) PROVE IInv'
  <2> DEFINE s == [IdleMeter EXCEPT !.pc = IF m.kind = "log" THEN "identify" ELSE "fetch",
                                    !.msg = m]
  <2>1. s.pc \in {"identify", "fetch"}  BY DEF IdleMeter
  <2>2. meter' = [meter EXCEPT ![w] = s] /\ UNCHANGED ledger  BY <1>2 DEF MeterTake
  <2> HIDE DEF s
  <2> QED BY <1>c, <2>1, <2>2
<1>3. ASSUME MeterIdentify(w) PROVE IInv'
  <2>1. Req(w) \in Requests /\ UNCHANGED ledger  BY <1>0, <1>3 DEF MeterIdentify
  <2>2. CASE meter' = [meter EXCEPT ![w].pc = "park"]
    <3> DEFINE s == [meter[w] EXCEPT !.pc = "park"]
    <3>1. s.pc = "park" /\ meter' = [meter EXCEPT ![w] = s]
      BY <1>0, <2>2 DEF MeterStates
    <3> HIDE DEF s
    <3> QED BY <1>c, <2>1, <3>1
  <2> QED BY <1>3, <1>b, <2>1, <2>2 DEF MeterIdentify
<1>4. ASSUME MeterPark(w) PROVE IInv'  BY <1>4, <1>c, <1>d DEF MeterPark
<1>5. ASSUME MeterFetch(w) PROVE IInv'
  <2> DEFINE s == [meter[w] EXCEPT !.pc = "lookup"]
  <2>1. s.pc = "lookup"  BY <1>0 DEF MeterStates
  <2>2. meter' = [meter EXCEPT ![w] = s] \/ meter' = [meter EXCEPT ![w] = IdleMeter]
    BY <1>5 DEF MeterFetch
  <2>3. UNCHANGED ledger  BY <1>5 DEF MeterFetch
  <2> HIDE DEF s
  <2> QED BY <1>c, <1>d, <2>1, <2>2, <2>3
<1>6. ASSUME MeterLookup(w) PROVE IInv'
  <2>1. Req(w) \in Requests /\ UNCHANGED ledger  BY <1>0, <1>6 DEF MeterLookup
  <2>2. (Req(w) \in identity) \in BOOLEAN  OBVIOUS
  <2> QED BY <1>6, <1>b, <2>1, <2>2 DEF MeterLookup
<1>7. ASSUME MeterDelete(w) PROVE IInv'  BY <1>7, <1>c, <1>d DEF MeterDelete
<1>8. ASSUME MeterCharge(w) PROVE IInv'  BY <1>0, <1>8, ChargeStep
<1>9. ASSUME MeterCharged(w) PROVE IInv'
  <2>1. BilledIn(Req(w), processed)  BY <1>9, ChargedBilled
  <2>2. Rest(w) \in SUBSET meter[w].todo  BY DEF Rest
  <2> QED BY <1>9, <1>e, <2>1, <2>2 DEF MeterCharged
<1>10. ASSUME MeterRefused(w) PROVE IInv'  BY <1>10, <1>c, <1>d DEF MeterRefused
<1>11. ASSUME MeterCount(w) PROVE IInv'
  BY <1>11, <1>e DEF MeterCount
<1>12. ASSUME MeterCountFails(w) PROVE IInv'
  BY <1>12, <1>e DEF MeterCountFails
<1>13. ASSUME MeterFault(w) PROVE IInv'  BY <1>13, <1>c, <1>d DEF MeterFault
<1>14. ASSUME MeterCrash(w) PROVE IInv'  BY <1>14, <1>c, <1>d DEF MeterCrash
<1> QED
  BY <1>1, <1>2, <1>3, <1>4, <1>5, <1>6, <1>7, <1>8, <1>9, <1>10, <1>11, <1>12,
     <1>13, <1>14 DEF MeterRuns, MeterFails

(* The inductive invariant holds at first. *)
LEMMA InitInv == Init => IInv
<1> SUFFICES ASSUME Init PROVE IInv  OBVIOUS
<1>1. TypeInv  BY InitTyped
<1>2. PastModel  BY DEF Init, PastModel, IdleMeter
<1>3. BilledInFull  BY FS_EmptySet DEF Init, BilledInFull
<1>4. PrimaryFirst  BY DEF Init, PrimaryFirst
<1> QED BY <1>1, <1>2, <1>3, <1>4 DEF IInv

(* Where neither the table nor the meter moves, the invariant stays.       *)
LEMMA OthersKeep ==
  ASSUME IInv, TypeInv', UNCHANGED <<ledger, meter>>
  PROVE  IInv'
<1>1. UNCHANGED <<processed, meter>>  BY DEF ledger
<1>2. PastModel'  BY <1>1, BilledIs, BilledIsNext DEF IInv
<1> QED BY <1>2, NoCharge

(* Every step keeps the inductive invariant. *)
LEMMA NextInv == IInv /\ [Next]_vars => IInv'
<1> SUFFICES ASSUME IInv, [Next]_vars PROVE IInv'  OBVIOUS
<1>1. TypeInv'  BY NextTyped DEF IInv
<1>2. CASE UNCHANGED vars  BY <1>1, <1>2, OthersKeep DEF vars
<1>3. ASSUME NEW w \in Meters, MeterRuns(w) \/ MeterFails(w) PROVE IInv'
  BY <1>3, MeterKeeps
<1>4. ASSUME NEW x \in Tracers, TracerRuns(x) \/ TracerFails(x) PROVE IInv'
  <2>1. UNCHANGED <<ledger, meter>>
    BY <1>4 DEF TracerRuns, TracerFails, TracerTake, TracerNote, TracerSee, TracerLook,
                TracerLookFails, TracerEmit, TracerCrash
  <2> QED BY <1>1, <2>1, OthersKeep
<1>5. CASE Surroundings
  <2>1. UNCHANGED <<ledger, meter>>  BY <1>5, SurroundingsTyped DEF IInv
  <2> QED BY <1>1, <2>1, OthersKeep
<1> QED BY <1>2, <1>3, <1>4, <1>5 DEF Next

(* The inductive invariant, for any constants.                             *)
THEOREM Inductive == Spec => []IInv
BY InitInv, NextInv, PTL DEF Spec

(* Every row holds the price of each of its requests once.                 *)
THEOREM InFull == Spec => []BilledInFull
<1>1. IInv => BilledInFull  BY DEF IInv
<1> QED BY <1>1, Inductive, PTL

(* No view of a request is billed before its model row.                    *)
THEOREM ModelRowFirst == Spec => []PrimaryFirst
<1>1. IInv => PrimaryFirst  BY DEF IInv
<1> QED BY <1>1, Inductive, PTL

(***************************************************************************)
(* The meter implements Billing, where one window and one owner per        *)
(* request are all there is to choose from.                                *)
(***************************************************************************)
LEMMA RowIs ==
  ASSUME NEW row \in Rows, NEW q \in Rows, SingleChoice,
         row.owner = q.owner, row.target = q.target
  PROVE  row = q
BY DEF Rows, SingleChoice

(* At first no row lists a request. *)
LEMMA InitOwn == Init => OwnRows
BY DEF Init, OwnRows, IdleMeter

(* A charge adds one request to one row of its own, once, and after the model row
   when it is another line. *)
LEMMA ChargeOwn ==
  ASSUME SingleChoice, IInv, OwnRows, NEW w \in Meters, MeterCharge(w)
  PROVE  /\ OwnRows'
         /\ \E r \in Requests, row \in Rows :
              /\ r \notin processed[row]
              /\ processed' = [processed EXCEPT ![row] = @ \union {r}]
              /\ spend' = [spend EXCEPT ![row] = @ + 1]
              /\ <<row.owner, row.target>> = KeyOf(r, LineOf(row), CtOwner[r])
              /\ LineOf(row) # "model" => BilledIn(r, processed)
<1>1. /\ TypeInv
      /\ meter[w].pc = "commit"
      /\ Price(meter[w].msg) = 1
      /\ meter[w].owner = CtOwner[Req(w)]
  BY DEF IInv, TypeInv, Handling, AtWork, MeterCharge, Price, OwnRows
<1>2. PICK b \in Believed(LineKey(w)) :
        LET row == RowOf(LineKey(w), b.window) IN
        /\ Req(w) \notin processed[row]
        /\ processed' = [processed EXCEPT ![row] = @ \union {Req(w)}]
        /\ spend' = [spend EXCEPT ![row] = @ + Price(meter[w].msg)]
        /\ meter' = [meter EXCEPT ![w] =
             IF b.rated /\ Line(w) \notin LensLines
             THEN [@ EXCEPT !.pc = "count", !.todo = Rest(w)]
             ELSE Proceed(w, Rest(w))]
  BY DEF MeterCharge
<1>p. PICK r \in Requests : r = Req(w)  BY <1>1, Committing
<1>q. PICK row \in Rows : row = RowOf(LineKey(w), b.window)  BY <1>1, Committing
<1>3. /\ r \notin processed[row]
      /\ processed' = [processed EXCEPT ![row] = @ \union {r}]
      /\ spend' = [spend EXCEPT ![row] = @ + 1]
  BY <1>1, <1>2, <1>p, <1>q
<1>4. LineOf(row) = Line(w)  BY <1>1, <1>q, Committing
<1>5. <<row.owner, row.target>> = KeyOf(r, LineOf(row), CtOwner[r])
  <2>1. LineKey(w) = KeyOf(r, LineOf(row), CtOwner[r])  BY <1>1, <1>4, <1>p DEF LineKey
  <2>2. LineKey(w) \in Keys  BY <1>1, Committing
  <2> QED BY <1>q, <2>1, <2>2 DEF RowOf, Keys
<1>6. LineOf(row) # "model" => BilledIn(r, processed)
  <2> SUFFICES ASSUME LineOf(row) # "model" PROVE BilledIn(r, processed)  OBVIOUS
  <2>1. "model" \notin meter[w].todo  BY <1>1, <1>4, Committing
  <2> QED BY <1>1, <1>p, <2>1, BilledIs DEF IInv, Req
<1>7. OwnRows'
  <2>1. processed \in [Rows -> SUBSET Requests] /\ meter \in [Meters -> MeterStates]
    BY <1>1 DEF TypeInv, TypeOK
  <2>2. ASSUME NEW q \in Rows, NEW x \in processed'[q]
        PROVE  <<q.owner, q.target>> = KeyOf(x, LineOf(q), CtOwner[x])
    <3>1. x \in processed[q] \/ (q = row /\ x = r)  BY <1>3, <2>1
    <3> QED BY <1>5, <3>1 DEF OwnRows
  <2>3. ASSUME NEW v \in Meters, meter'[v].pc \in {"commit", "count"}
        PROVE  meter'[v].owner = CtOwner[meter'[v].msg.req]
    <3>1. CASE v # w
      <4>1. meter'[v] = meter[v]  BY <1>2, <2>1, <3>1
      <4> QED BY <2>3, <4>1 DEF OwnRows, Req
    <3>2. CASE v = w
      <4>0. meter[w] \in MeterStates  BY <2>1
      <4>1. meter'[w] = [meter[w] EXCEPT !.pc = "count", !.todo = Rest(w)]
            \/ meter'[w] = Proceed(w, Rest(w))
        BY <1>2, <2>1
      <4>2. meter'[w].owner = meter[w].owner /\ meter'[w].msg = meter[w].msg
        <5>1. CASE meter'[w] = [meter[w] EXCEPT !.pc = "count", !.todo = Rest(w)]
          BY <4>0, <5>1 DEF MeterStates
        <5>2. CASE meter'[w] = Proceed(w, Rest(w))
          BY <2>3, <3>2, <4>0, <5>2 DEF MeterStates, Proceed, Done, IdleMeter
        <5> QED BY <4>1, <5>1, <5>2
      <4> QED BY <1>1, <3>2, <4>2 DEF Req
    <3> QED BY <3>1, <3>2
  <2> QED BY <2>2, <2>3 DEF OwnRows, Req, KeyOf, LineOf
<1> QED BY <1>3, <1>5, <1>6, <1>7

(* A step of an invocation that writes no row keeps whom it bills.         *)
LEMMA OwnMoves ==
  ASSUME TypeInv, OwnRows, NEW w \in Meters, NEW s, UNCHANGED processed,
         meter' = [meter EXCEPT ![w] = s],
         s.pc \in {"commit", "count"} => s.owner = CtOwner[s.msg.req]
  PROVE  OwnRows'
<1>1. meter \in [Meters -> MeterStates]  BY DEF TypeInv, TypeOK
<1>2. \A v \in Meters : meter'[v] = IF v = w THEN s ELSE meter[v]  BY <1>1
<1>3. (\A row \in Rows : \A r \in processed[row] :
        <<row.owner, row.target>> = KeyOf(r, LineOf(row), CtOwner[r]))'
  BY DEF OwnRows, KeyOf, LineOf
<1>4. (\A v \in Meters : meter[v].pc \in {"commit", "count"} =>
        meter[v].owner = CtOwner[Req(v)])'
  BY <1>2 DEF OwnRows, Req
<1> QED BY <1>3, <1>4 DEF OwnRows

(* Every other step of a meter leaves the rows as they are. *)
LEMMA MeterOwn ==
  ASSUME SingleChoice, IInv, OwnRows, NEW w \in Meters,
         MeterRuns(w) \/ MeterFails(w), ~MeterCharge(w)
  PROVE  OwnRows' /\ UNCHANGED ledger
<1>0. /\ TypeInv
      /\ meter \in [Meters -> MeterStates] /\ meter[w] \in MeterStates
      /\ meter[w].pc # "idle" => Req(w) \in Requests
      /\ meter[w].pc \in {"commit", "count"} => meter[w].owner = CtOwner[Req(w)]
  <2>1. TypeInv  BY DEF IInv
  <2> QED BY <2>1 DEF TypeInv, TypeOK, Handling, AtWork, Req, Messages, OwnRows
<1>u. UNCHANGED ledger
  BY DEF MeterRuns, MeterFails, MeterSkip, MeterTake, MeterIdentify, MeterPark, MeterFetch,
         MeterLookup, MeterDelete, MeterCharged, MeterRefused, MeterCount,
         MeterCountFails, MeterFault, MeterCrash
<1>a. ASSUME NEW s, meter' = [meter EXCEPT ![w] = s],
             s.pc \in {"commit", "count"} => s.owner = CtOwner[s.msg.req]
      PROVE  OwnRows'
  <2>1. UNCHANGED processed  BY <1>u DEF ledger
  <2> QED BY <1>0, <1>a, <2>1, OwnMoves
<1>b. ASSUME NEW lensed \in BOOLEAN, Bill(w, CtOwner[Req(w)], lensed)
      PROVE  OwnRows'
  <2> DEFINE s == [meter[w] EXCEPT !.pc = "commit", !.owner = CtOwner[Req(w)],
                                   !.todo = LinesOf(Req(w), lensed)]
  <2>1. meter' = [meter EXCEPT ![w] = s]  BY <1>0, <1>b DEF Bill
  <2>2. s.owner = CtOwner[s.msg.req]  BY <1>0 DEF MeterStates, Req
  <2> HIDE DEF s
  <2> QED BY <1>a, <2>1, <2>2
<1>c. ASSUME NEW pc \in {"idle", "park", "identify", "fetch", "lookup", "delete"},
             NEW s, s.pc = pc, meter' = [meter EXCEPT ![w] = s]
      PROVE  OwnRows'
  BY <1>a, <1>c
<1>d. IdleMeter.pc = "idle" /\ Done(w).pc \in {"idle", "delete"}
  BY <1>0 DEF IdleMeter, Done, MeterStates
<1>e. ASSUME NEW rest \in SUBSET meter[w].todo, meter[w].pc \in {"commit", "count"},
             meter' = [meter EXCEPT ![w] = Proceed(w, rest)]
      PROVE  OwnRows'
  <2>1. CASE rest = {}  BY <1>c, <1>d, <1>e, <2>1 DEF Proceed
  <2>2. CASE rest # {}
    <3> DEFINE s == [meter[w] EXCEPT !.pc = "commit", !.todo = rest]
    <3>1. s.owner = meter[w].owner /\ s.msg.req = Req(w)  BY <1>0 DEF MeterStates, Req
    <3>2. meter' = [meter EXCEPT ![w] = s]  BY <1>e, <2>2 DEF Proceed
    <3> HIDE DEF s
    <3> QED BY <1>0, <1>a, <1>e, <3>1, <3>2
  <2> QED BY <2>1, <2>2
<1>1. ASSUME NEW m \in mail, MeterSkip(w, m) PROVE OwnRows'
  <2>1. meter' = [meter EXCEPT ![w] = meter[w]]  BY <1>0, <1>1 DEF MeterSkip
  <2> QED BY <1>0, <1>a, <2>1 DEF Req
<1>2. ASSUME NEW m \in mail, MeterTake(w, m) PROVE OwnRows'
  <2> DEFINE s == [IdleMeter EXCEPT !.pc = IF m.kind = "log" THEN "identify" ELSE "fetch",
                                    !.msg = m]
  <2>1. s.pc \in {"identify", "fetch"}  BY DEF IdleMeter
  <2>2. meter' = [meter EXCEPT ![w] = s]  BY <1>2 DEF MeterTake
  <2> HIDE DEF s
  <2> QED BY <1>c, <2>1, <2>2
<1>3. ASSUME MeterIdentify(w) PROVE OwnRows'
  <2>1. Req(w) \in Requests  BY <1>0, <1>3 DEF MeterIdentify
  <2>2. LogOwner[Req(w)] # NoOwner => LogOwner[Req(w)] = CtOwner[Req(w)]
    BY <2>1 DEF SingleChoice
  <2>3. CASE meter' = [meter EXCEPT ![w].pc = "park"]
    <3> DEFINE s == [meter[w] EXCEPT !.pc = "park"]
    <3>1. s.pc = "park" /\ meter' = [meter EXCEPT ![w] = s]
      BY <1>0, <2>3 DEF MeterStates
    <3> HIDE DEF s
    <3> QED BY <1>c, <3>1
  <2> QED BY <1>3, <1>b, <2>2, <2>3 DEF MeterIdentify
<1>4. ASSUME MeterPark(w) PROVE OwnRows'  BY <1>4, <1>c, <1>d DEF MeterPark
<1>5. ASSUME MeterFetch(w) PROVE OwnRows'
  <2> DEFINE s == [meter[w] EXCEPT !.pc = "lookup"]
  <2>1. s.pc = "lookup"  BY <1>0 DEF MeterStates
  <2>2. meter' = [meter EXCEPT ![w] = s] \/ meter' = [meter EXCEPT ![w] = IdleMeter]
    BY <1>5 DEF MeterFetch
  <2> HIDE DEF s
  <2> QED BY <1>c, <1>d, <2>1, <2>2
<1>6. ASSUME MeterLookup(w) PROVE OwnRows'
  <2>1. (Req(w) \in identity) \in BOOLEAN  OBVIOUS
  <2> QED BY <1>6, <1>b, <2>1 DEF MeterLookup
<1>7. ASSUME MeterDelete(w) PROVE OwnRows'  BY <1>7, <1>c, <1>d DEF MeterDelete
<1>8. ASSUME MeterCharged(w) PROVE OwnRows'
  <2>1. meter[w].pc \in {"commit", "count"} /\ meter' = [meter EXCEPT ![w] = Proceed(w, Rest(w))]
    BY <1>8 DEF MeterCharged
  <2>2. Rest(w) \in SUBSET meter[w].todo  BY DEF Rest
  <2> QED BY <1>e, <2>1, <2>2
<1>9. ASSUME MeterRefused(w) PROVE OwnRows'  BY <1>9, <1>c, <1>d DEF MeterRefused
<1>10. ASSUME MeterCount(w) \/ MeterCountFails(w) PROVE OwnRows'
  <2>1. /\ meter[w].pc \in {"commit", "count"}
        /\ meter' = [meter EXCEPT ![w] = Proceed(w, meter[w].todo)]
    BY <1>10 DEF MeterCount, MeterCountFails
  <2>2. meter[w].todo \in SUBSET meter[w].todo  OBVIOUS
  <2> QED BY <1>e, <2>1, <2>2
<1>11. ASSUME MeterFault(w) PROVE OwnRows'  BY <1>11, <1>c, <1>d DEF MeterFault
<1>12. ASSUME MeterCrash(w) PROVE OwnRows'  BY <1>12, <1>c, <1>d DEF MeterCrash
<1>13. OwnRows'
  BY <1>1, <1>2, <1>3, <1>4, <1>5, <1>6, <1>7, <1>8, <1>9, <1>10, <1>11,
     <1>12 DEF MeterRuns, MeterFails
<1> QED BY <1>u, <1>13

(* A step that leaves rows and meters alone keeps whose rows they are. *)
LEMMA OthersOwn ==
  ASSUME OwnRows, UNCHANGED <<ledger, meter>>
  PROVE  OwnRows' /\ UNCHANGED ledger
<1>1. UNCHANGED <<processed, meter>>  BY DEF ledger
<1> QED BY <1>1 DEF OwnRows, KeyOf, LineOf, Req

(* Every step keeps whose rows they are, and only a charge changes the rows. *)
LEMMA NextOwn ==
  ASSUME SingleChoice, IInv, OwnRows, [Next]_vars
  PROVE  /\ OwnRows'
         /\ UNCHANGED ledger \/ \E w \in Meters : MeterCharge(w)
<1>1. CASE UNCHANGED vars  BY <1>1, OthersOwn DEF vars
<1>2. ASSUME NEW w \in Meters, MeterRuns(w) \/ MeterFails(w)
      PROVE  OwnRows' /\ (UNCHANGED ledger \/ MeterCharge(w))
  BY <1>2, MeterOwn, ChargeOwn
<1>3. ASSUME NEW x \in Tracers, TracerRuns(x) \/ TracerFails(x)
      PROVE  OwnRows' /\ UNCHANGED ledger
  <2>1. UNCHANGED <<ledger, meter>>
    BY <1>3 DEF TracerRuns, TracerFails, TracerTake, TracerNote, TracerSee, TracerLook,
                TracerLookFails, TracerEmit, TracerCrash
  <2> QED BY <2>1, OthersOwn
<1>4. CASE Surroundings
  <2>1. UNCHANGED <<ledger, meter>>  BY <1>4, SurroundingsTyped DEF IInv
  <2> QED BY <2>1, OthersOwn
<1> QED BY <1>1, <1>2, <1>3, <1>4 DEF Next

(* Every step charges one line that was not charged, or stutters.          *)
LEMMA StepCharges ==
  ASSUME SingleChoice, IInv, OwnRows, [Next]_vars
  PROVE  [Bills!Next]_<<Charges, spend>>
<1>1. CASE UNCHANGED ledger  BY <1>1 DEF ledger, Charges
<1>2. ASSUME NEW w \in Meters, MeterCharge(w) PROVE Bills!Next
  <2>1. PICK r \in Requests, row \in Rows :
          /\ r \notin processed[row]
          /\ processed' = [processed EXCEPT ![row] = @ \union {r}]
          /\ spend' = [spend EXCEPT ![row] = @ + 1]
          /\ <<row.owner, row.target>> = KeyOf(r, LineOf(row), CtOwner[r])
          /\ LineOf(row) # "model" => BilledIn(r, processed)
    BY <1>2, ChargeOwn
  <2>2. processed \in [Rows -> SUBSET Requests]
    BY DEF IInv, TypeInv, TypeOK
  <2>3. ~Bills!HasLine(r, LineOf(row))
    <3> SUFFICES ASSUME NEW q \in Rows, <<r, q>> \in Charges, LineOf(q) = LineOf(row)
                 PROVE  FALSE
      BY DEF Bills!HasLine
    <3>1. r \in processed[q]  BY DEF Charges
    <3>2. <<q.owner, q.target>> = KeyOf(r, LineOf(q), CtOwner[r])  BY <3>1 DEF OwnRows
    <3>3. q = row  BY <2>1, <3>2, RowIs
    <3> QED BY <2>1, <3>1, <3>3
  <2>4. LineOf(row) # "model" => Bills!HasLine(r, "model")
    <3> SUFFICES ASSUME BilledIn(r, processed) PROVE Bills!HasLine(r, "model")
      BY <2>1
    <3>1. PICK q \in Rows : q.target = "model" /\ q.owner \in Principals /\ r \in processed[q]
      BY DEF BilledIn
    <3>2. LineOf(q) = "model"  BY <3>1, OwnersAssumption DEF LineOf
    <3>3. <<r, q>> \in Charges  BY <3>1 DEF Charges
    <3> QED BY <3>2, <3>3 DEF Bills!HasLine
  <2>5. Charges' = Charges \union {<<r, row>>}
    <3>1. \A q \in Rows : processed'[q] = IF q = row THEN processed[q] \union {r}
                                                      ELSE processed[q]
      BY <2>1, <2>2
    <3>2. Charges = {c \in Requests \X Rows : c[1] \in processed[c[2]]}
          /\ Charges' = {c \in Requests \X Rows : c[1] \in processed'[c[2]]}
      BY DEF Charges
    <3>3. \A c \in Requests \X Rows : c \in Charges' <=> c \in Charges \/ c = <<r, row>>
      <4> TAKE c \in Requests \X Rows
      <4>1. PICK t \in Requests, q \in Rows : c = <<t, q>>  OBVIOUS
      <4>2. c \in Charges' <=> t \in processed'[q]  BY <3>2, <4>1
      <4>3. c \in Charges <=> t \in processed[q]  BY <3>2, <4>1
      <4>4. c = <<r, row>> <=> t = r /\ q = row  BY <4>1
      <4> QED BY <3>1, <4>2, <4>3, <4>4
    <3>4. <<r, row>> \in Requests \X Rows  BY <2>1
    <3> QED BY <3>2, <3>3, <3>4
  <2>6. Bills!Charge(r, row)  BY <2>1, <2>3, <2>4, <2>5 DEF Bills!Charge
  <2> QED BY <2>6 DEF Bills!Next
<1> QED BY <1>1, <1>2, NextOwn

(* The initial states are initial states of Billing. *)
LEMMA InitBills == Init => Bills!Init
BY DEF Init, Bills!Init, Charges

(* Where one window and one owner are all there is to choose from, a line  *)
(* of a request is charged to one row, once, and views after the model.    *)
THEOREM Implements == SingleChoice => (Spec => ImplementsBilling)
<1> SUFFICES ASSUME SingleChoice PROVE Spec => ImplementsBilling  OBVIOUS
<1>1. IInv /\ OwnRows /\ [Next]_vars => OwnRows'  BY NextOwn
<1>2. IInv /\ OwnRows /\ [Next]_vars => [Bills!Next]_<<Charges, spend>>  BY StepCharges
<1>3. Spec => Bills!Spec
  BY <1>1, <1>2, InitInv, NextInv, InitOwn, InitBills, PTL DEF Spec, Bills!Spec
<1> QED BY <1>3 DEF ImplementsBilling

(***************************************************************************)
(* What becomes of a log.                                                  *)
(***************************************************************************)
(* A message is a log or an announcement, and so is what works on it.      *)
Sorted(s) ==
  /\ s.pc \in {"fetch", "lookup", "delete"} => s.msg.kind = "arrived"
  /\ s.pc \in {"identify", "park"} => s.msg.kind = "log"
Dead(r, queue)         == \E l \in queue : l.req = r
Mailed(kind, r, inbox) == \E m \in inbox : m.kind = kind /\ m.req = r
AtLog(s)               == s.pc # "idle" /\ s.msg.kind = "log"
Held(r, inbox, queue, parked, table, ms) ==
  \/ BilledIn(r, table)
  \/ r \in parked
  \/ Dead(r, queue)
  \/ Mailed("log", r, inbox)
  \/ \E v \in Meters : AtLog(ms[v]) /\ ms[v].msg.req = r
(* A log that was sent is in somebody's hands until it is billed.          *)
Kept ==
  /\ \A w \in Meters : Sorted(meter[w])
                       /\ (meter[w].pc = "delete" => BilledIn(meter[w].msg.req, processed))
  /\ \A r \in Requests : Served(r) => Held(r, mail, dlq, pending, processed, meter)

(* A row of the table has a line of a request; the table has all lines.    *)
LineIn(r, l, table) ==
  \E row \in Rows : /\ row.target = IF l \in LensLines THEN "model" ELSE l
                    /\ row.owner \in IF l \in LensLines THEN {LensOf[l][r]} ELSE Principals
                    /\ r \in table[row]
AllIn(r, table) == \A l \in LinesOf(r, TRUE) : LineIn(r, l, table)
Knows(r, id)    == r \in id \/ LogOwner[r] # NoOwner

(* An invocation that commits has billed the lines it does not have to     *)
(* bill any more; one that handles an announcement, while it is needed,    *)
(* has the parked log to fall back on.                                     *)
WorkIn(s, id, parked, table) ==
  s.pc # "idle" =>
    /\ Sorted(s)
    /\ s.msg.kind = "arrived" => s.msg.req \in id
    /\ s.pc \in {"commit", "count"} =>
         /\ Knows(s.msg.req, id)
         /\ \A l \in LinesOf(s.msg.req, TRUE) : LineIn(s.msg.req, l, table) \/ l \in s.todo
    /\ s.pc = "delete" => AllIn(s.msg.req, table)
    /\ s.msg.kind = "arrived" /\ s.pc \in {"lookup", "commit", "count"} =>
         s.msg.req \in parked \/ AllIn(s.msg.req, table)

(* Who can still complete the bill of a request.                           *)
CarriesLog(s)     == s.pc \in {"identify", "commit", "count"} /\ s.msg.kind = "log"
CarriesArrived(s) == s.pc # "idle" /\ s.msg.kind = "arrived"
Underway(r, inbox, parked, ms) ==
  \/ Mailed("log", r, inbox)
  \/ \E v \in Meters : CarriesLog(ms[v]) /\ ms[v].msg.req = r
  \/ r \in parked /\ Mailed("arrived", r, inbox)
  \/ r \in parked /\ \E v \in Meters : CarriesArrived(ms[v]) /\ ms[v].msg.req = r
Accounted(r, inbox, queue, parked, table, ms) ==
  AllIn(r, table) \/ Dead(r, queue) \/ Underway(r, inbox, parked, ms)

(* Only what the identity cache knows is announced.                        *)
Announced ==
  /\ \A l \in sent : l.kind = "arrived" => l.req \in identity
  /\ \A m \in mail : m.kind = "arrived" => m.req \in identity
  /\ \A x \in Tracers : /\ tracer[x].pc # "idle" => tracer[x].msg.kind = "trail"
                        /\ tracer[x].pc \in {"see", "look", "emit"} => tracer[x].msg.req \in identity

Completes ==
  /\ Announced
  /\ \A w \in Meters : WorkIn(meter[w], identity, pending, processed)
  /\ \A r \in Requests : BilledIn(r, processed) =>
       Knows(r, identity) /\ Accounted(r, mail, dlq, pending, processed, meter)

(***************************************************************************)
(* The meter's steps, by what they leave of an invocation's work.          *)
(***************************************************************************)
Same == mail' = mail /\ dlq' = dlq /\ pending' = pending /\ processed' = processed
GoesOn(w, s, pc) == s.pc = pc /\ s.msg = meter[w].msg

Skips(w, s) ==
  /\ meter[w].pc = "idle" /\ s.pc = "idle"
  /\ \E m \in mail : m.kind = "opening" /\ mail' = mail \ {m}
  /\ dlq' = dlq /\ pending' = pending /\ processed' = processed
Takes(w, s) ==
  /\ meter[w].pc = "idle"
  /\ \E m \in mail : /\ mail' = mail \ {m} /\ s.msg = m
                     /\ \/ m.kind = "log" /\ s.pc = "identify"
                        \/ m.kind = "arrived" /\ s.pc = "fetch"
  /\ dlq' = dlq /\ pending' = pending /\ processed' = processed
Starts(w, s) ==
  /\ Same /\ meter[w].pc \in {"identify", "lookup"} /\ GoesOn(w, s, "commit")
  /\ \/ Req(w) \in identity /\ s.todo = LinesOf(Req(w), TRUE)
     \/ meter[w].pc = "identify" /\ LogOwner[Req(w)] # NoOwner /\ s.todo = LinesOf(Req(w), FALSE)
     \/ meter[w].pc = "lookup" /\ Req(w) \notin identity
Misses(w, s) == Same /\ meter[w].pc = "identify" /\ GoesOn(w, s, "park") /\ ~ Knows(Req(w), identity)
Parks(w, s) ==
  /\ meter[w].pc = "park" /\ s.pc = "idle" /\ pending' = pending \union {Req(w)}
  /\ mail' = mail /\ dlq' = dlq /\ processed' = processed
Reads(w, s) ==
  /\ Same /\ meter[w].pc = "fetch"
  /\ IF Req(w) \in pending THEN GoesOn(w, s, "lookup") ELSE s.pc = "idle"
Drops(w, s) ==
  /\ meter[w].pc = "delete" /\ s.pc = "idle" /\ pending' = pending \ {Req(w)}
  /\ mail' = mail /\ dlq' = dlq /\ processed' = processed
Commits(w, s) ==
  /\ meter[w].pc \in {"commit", "count"}
  /\ mail' = mail /\ dlq' = dlq /\ pending' = pending
  /\ \E rest \in SUBSET meter[w].todo :
       /\ \A l \in meter[w].todo \ rest : LineIn(Req(w), l, processed')
       /\ \/ rest = {} /\ meter[w].msg.kind = "arrived" /\ GoesOn(w, s, "delete")
          \/ rest = {} /\ meter[w].msg.kind # "arrived" /\ s.pc = "idle"
          \/ s.todo = rest /\ (GoesOn(w, s, "commit") \/ GoesOn(w, s, "count"))
GivesBack(w, s) ==
  /\ meter[w].pc # "idle" /\ s.pc = "idle" /\ pending' = pending /\ processed' = processed
  /\ \/ /\ dlq' = dlq
        /\ \E m \in Messages : /\ m.kind = meter[w].msg.kind /\ m.req = Req(w)
                               /\ mail' = mail \union {m}
     \/ dlq' = dlq \union {Letter(meter[w].msg)} /\ mail' = mail
Works(w, s) ==
  \/ Skips(w, s) \/ Takes(w, s) \/ Starts(w, s) \/ Misses(w, s) \/ Parks(w, s)
  \/ Reads(w, s) \/ Drops(w, s) \/ Commits(w, s) \/ GivesBack(w, s)

(* Without faults to come, what may fail does not.                         *)
LEMMA Calm ==
  ASSUME TypeInv, Undisturbed
  PROVE  ~ Use("faults") /\ ~ Use("expiries")
<1>1. used["faults"] \in Nat /\ used["expiries"] \in Nat
  BY DEF TypeInv, TypeOK, Counts
<1>2. MaxUse["faults"] = 0 /\ MaxUse["expiries"] = 0
  BY DEF Undisturbed
<1> QED BY <1>1, <1>2 DEF Use

(* With room for every request, no row refuses one.                        *)
LEMMA HasRoom ==
  ASSUME TypeInv, Undisturbed, NEW w \in Meters
  PROVE  ~ MeterRefused(w)
<1> SUFFICES ASSUME MeterRefused(w) PROVE FALSE  OBVIOUS
<1>1. PICK b \in Believed(LineKey(w)) :
        LET row == RowOf(LineKey(w), b.window) IN Req(w) \notin processed[row] /\ Full(row)
  BY DEF MeterRefused
<1>2. meter[w].pc = "commit"  BY DEF MeterRefused
<1>3. PICK r \in Requests : r = Req(w)  BY <1>2, Committing
<1>4. PICK row \in Rows : row = RowOf(LineKey(w), b.window)  BY <1>2, Committing
<1>5. processed[row] \subseteq Requests \ {r}
  BY <1>1, <1>3, <1>4 DEF TypeInv, TypeOK
<1>6. IsFiniteSet(Requests \ {r}) /\ Cardinality(Requests \ {r}) = Cardinality(Requests) - 1
  BY RequestsAssumption, FS_RemoveElement
<1>7. IsFiniteSet(processed[row]) /\ Cardinality(processed[row]) <= Cardinality(Requests \ {r})
  BY <1>5, <1>6, FS_Subset
<1>8. Cardinality(processed[row]) \in Nat /\ Cardinality(Requests) \in Nat
  BY <1>7, RequestsAssumption, FS_CardinalityType
<1>9. Cardinality(processed[row]) >= RowCapacity  BY <1>1, <1>4 DEF Full
<1> QED BY <1>6, <1>7, <1>8, <1>9, BoundsAssumption DEF Undisturbed

(* What a step of the meter is, without faults and with room.              *)
Grows(w) ==
  \A row \in Rows : /\ processed[row] \subseteq processed'[row]
                    /\ \A q \in processed'[row] :
                         q \in processed[row] \/ (meter[w].pc = "commit" /\ q = Req(w))
Moves(w, s) ==
  /\ meter' = [meter EXCEPT ![w] = s]
  /\ sent' = sent /\ identity' = identity
  /\ Grows(w)
  /\ Works(w, s)

(* Charging, or having charged, bills the line at hand.                    *)
LEMMA ChargesLine ==
  ASSUME TypeInv, NEW w \in Meters, meter[w].pc = "commit",
         NEW row \in Rows, NEW v, row = RowOf(LineKey(w), v),
         NEW table, Req(w) \in table[row]
  PROVE  LineIn(Req(w), Line(w), table)
<1>1. meter[w].owner \in Principals  BY DEF TypeInv, Handling, AtWork
<1>2. /\ row.target = IF Line(w) \in LensLines THEN "model" ELSE Line(w)
      /\ row.owner \in IF Line(w) \in LensLines THEN {LensOf[Line(w)][Req(w)]} ELSE Principals
  BY <1>1 DEF RowOf, LineKey, KeyOf
<1> QED BY <1>2 DEF LineIn

(* Going on with the rest, after the lines before it.                      *)
LEMMA GoingOn ==
  ASSUME TypeInv, NEW w \in Meters, meter[w].pc \in {"commit", "count"},
         NEW rest \in SUBSET meter[w].todo,
         NEW s, s = Proceed(w, rest) \/ s = [meter[w] EXCEPT !.pc = "count", !.todo = rest]
  PROVE  \/ rest = {} /\ meter[w].msg.kind = "arrived" /\ GoesOn(w, s, "delete")
         \/ rest = {} /\ meter[w].msg.kind # "arrived" /\ s.pc = "idle"
         \/ s.todo = rest /\ (GoesOn(w, s, "commit") \/ GoesOn(w, s, "count"))
<1>1. meter[w] \in MeterStates  BY DEF TypeInv, TypeOK
<1>2. CASE s = [meter[w] EXCEPT !.pc = "count", !.todo = rest]
  BY <1>1, <1>2 DEF MeterStates, GoesOn
<1>3. CASE s = Proceed(w, rest) /\ rest # {}
  BY <1>1, <1>3 DEF MeterStates, GoesOn, Proceed
<1>4. CASE s = Proceed(w, rest) /\ rest = {}
  BY <1>1, <1>4 DEF MeterStates, GoesOn, Proceed, Done, IdleMeter
<1> QED BY <1>2, <1>3, <1>4

(* A step of a meter that nobody disturbs has one of the shapes of Moves. *)
LEMMA MeterFacts ==
  ASSUME TypeInv, Undisturbed, NEW w \in Meters, MeterRuns(w) \/ MeterFails(w)
  PROVE  \E s \in MeterStates : Moves(w, s)
<1> USE DEF post, join, ledger
<1>0. /\ meter \in [Meters -> MeterStates] /\ meter[w] \in MeterStates
      /\ mail \subseteq Messages
      /\ meter[w].pc # "idle" => Req(w) \in Requests /\ meter[w].msg \in Messages
  BY DEF TypeInv, TypeOK, Handling, AtWork, Req, Messages
<1>g. ASSUME UNCHANGED processed PROVE Grows(w)  BY <1>g DEF Grows
<1>a. ASSUME NEW s, UNCHANGED <<sent, identity>>, Grows(w), Works(w, s), TypeInv',
             meter' = [meter EXCEPT ![w] = s]
      PROVE  \E t \in MeterStates : Moves(w, t)
  <2>1. meter'[w] = s /\ meter'[w] \in MeterStates  BY <1>0, <1>a DEF TypeInv, TypeOK
  <2>2. s \in MeterStates  BY <2>1
  <2> QED BY <1>a, <2>2 DEF Moves
<1>t. TypeInv'  BY MeterTyped
<1>1. ASSUME NEW m \in mail, MeterSkip(w, m) PROVE \E t \in MeterStates : Moves(w, t)
  <2>1. meter' = [meter EXCEPT ![w] = meter[w]]  BY <1>0, <1>1 DEF MeterSkip
  <2>2. Skips(w, meter[w])  BY <1>1 DEF MeterSkip, Take, Skips
  <2> QED BY <1>a, <1>g, <1>t, <1>1, <2>1, <2>2 DEF MeterSkip, Take, Works
<1>2. ASSUME NEW m \in mail, MeterTake(w, m) PROVE \E t \in MeterStates : Moves(w, t)
  <2> DEFINE s == [IdleMeter EXCEPT !.pc = IF m.kind = "log" THEN "identify" ELSE "fetch",
                                    !.msg = m]
  <2>1. /\ s.msg = m
        /\ \/ m.kind = "log" /\ s.pc = "identify"
           \/ m.kind = "arrived" /\ s.pc = "fetch"
    BY <1>2 DEF IdleMeter, MeterTake
  <2>2. meter' = [meter EXCEPT ![w] = s]  BY <1>2 DEF MeterTake
  <2> HIDE DEF s
  <2>3. Takes(w, s)  BY <1>2, <2>1 DEF MeterTake, Take, Takes
  <2> QED BY <1>a, <1>g, <1>t, <1>2, <2>2, <2>3 DEF MeterTake, Take, Works
<1>3. ASSUME MeterIdentify(w) \/ MeterLookup(w) PROVE \E t \in MeterStates : Moves(w, t)
  <2>1. /\ UNCHANGED <<mail, sent, dlq, identity, pending, processed>>
        /\ meter[w].pc \in {"identify", "lookup"}
    BY <1>3 DEF MeterIdentify, MeterLookup
  <2>2. ASSUME NEW o, NEW b \in BOOLEAN, Bill(w, o, b),
               \/ Req(w) \in identity /\ b = TRUE
               \/ meter[w].pc = "identify" /\ LogOwner[Req(w)] # NoOwner /\ b = FALSE
               \/ meter[w].pc = "lookup" /\ Req(w) \notin identity
        PROVE  \E t \in MeterStates : Moves(w, t)
    <3> DEFINE s == [meter[w] EXCEPT !.pc = "commit", !.owner = o, !.todo = LinesOf(Req(w), b)]
    <3>1. meter' = [meter EXCEPT ![w] = s]  BY <1>0, <2>2 DEF Bill
    <3>2. GoesOn(w, s, "commit") /\ s.todo = LinesOf(Req(w), b)
      BY <1>0 DEF MeterStates, GoesOn
    <3> HIDE DEF s
    <3>3. Starts(w, s)  BY <2>1, <2>2, <3>2 DEF Starts, Same
    <3> QED BY <1>a, <1>g, <1>t, <2>1, <3>1, <3>3 DEF Works
  <2>3. CASE Req(w) \notin identity /\ meter[w].pc = "identify" /\ LogOwner[Req(w)] = NoOwner
    <3> DEFINE s == [meter[w] EXCEPT !.pc = "park"]
    <3>1. meter' = [meter EXCEPT ![w] = s]
      BY <1>0, <1>3, <2>3 DEF MeterIdentify, MeterLookup
    <3>2. GoesOn(w, s, "park")  BY <1>0 DEF MeterStates, GoesOn
    <3> HIDE DEF s
    <3>3. Misses(w, s)  BY <2>1, <2>3, <3>2 DEF Misses, Same, Knows
    <3> QED BY <1>a, <1>g, <1>t, <2>1, <3>1, <3>3 DEF Works
  <2>4. CASE meter[w].pc = "lookup"
    <3>1. Bill(w, CtOwner[Req(w)], Req(w) \in identity)
      BY <1>3, <2>4 DEF MeterIdentify, MeterLookup
    <3>2. (Req(w) \in identity) \in BOOLEAN  OBVIOUS
    <3>3. CASE Req(w) \in identity
      <4>1. Bill(w, CtOwner[Req(w)], TRUE)  BY <3>1, <3>3
      <4> QED BY <2>2, <3>3, <4>1
    <3>4. CASE Req(w) \notin identity  BY <2>2, <2>4, <3>1, <3>2, <3>4
    <3> QED BY <3>3, <3>4
  <2>5. CASE meter[w].pc = "identify" /\ (Req(w) \in identity \/ LogOwner[Req(w)] # NoOwner)
    BY <1>3, <2>2, <2>5 DEF MeterIdentify, MeterLookup
  <2> QED BY <2>1, <2>3, <2>4, <2>5
<1>4. ASSUME MeterPark(w) PROVE \E t \in MeterStates : Moves(w, t)
  <2>1. Parks(w, IdleMeter)  BY <1>4 DEF MeterPark, Parks, IdleMeter
  <2> QED BY <1>a, <1>g, <1>t, <1>4, <2>1 DEF MeterPark, Works
<1>5. ASSUME MeterFetch(w) PROVE \E t \in MeterStates : Moves(w, t)
  <2> DEFINE s == IF Req(w) \in pending THEN [meter[w] EXCEPT !.pc = "lookup"] ELSE IdleMeter
  <2>1. IF Req(w) \in pending THEN GoesOn(w, s, "lookup") ELSE s.pc = "idle"
    BY <1>0 DEF MeterStates, GoesOn, IdleMeter
  <2>2. meter' = [meter EXCEPT ![w] = s]  BY <1>0, <1>5 DEF MeterFetch
  <2> HIDE DEF s
  <2>3. Reads(w, s)  BY <1>5, <2>1 DEF MeterFetch, Reads, Same
  <2> QED BY <1>a, <1>g, <1>t, <1>5, <2>2, <2>3 DEF MeterFetch, Works
<1>6. ASSUME MeterDelete(w) PROVE \E t \in MeterStates : Moves(w, t)
  <2>1. Drops(w, IdleMeter)  BY <1>6 DEF MeterDelete, Drops, IdleMeter
  <2> QED BY <1>a, <1>g, <1>t, <1>6, <2>1 DEF MeterDelete, Works
<1>7. ASSUME MeterCharge(w) PROVE \E t \in MeterStates : Moves(w, t)
  <2>1. meter[w].pc = "commit" /\ UNCHANGED <<mail, sent, dlq, identity, pending>>
    BY <1>7 DEF MeterCharge
  <2>2. PICK b \in Believed(LineKey(w)) :
          LET row == RowOf(LineKey(w), b.window) IN
          /\ processed' = [processed EXCEPT ![row] = @ \union {Req(w)}]
          /\ meter' = [meter EXCEPT ![w] =
               IF b.rated /\ Line(w) \notin LensLines
               THEN [@ EXCEPT !.pc = "count", !.todo = Rest(w)]
               ELSE Proceed(w, Rest(w))]
    BY <1>7 DEF MeterCharge
  <2>3. PICK row \in Rows : row = RowOf(LineKey(w), b.window)  BY <2>1, Committing
  <2>4. processed' = [processed EXCEPT ![row] = @ \union {Req(w)}]  BY <2>2, <2>3
  <2>5. \A q \in Rows : processed'[q] = IF q = row THEN processed[q] \union {Req(w)}
                                                    ELSE processed[q]
    BY <2>4 DEF TypeInv, TypeOK
  <2>6. Grows(w)  BY <2>1, <2>5 DEF Grows
  <2>7. LineIn(Req(w), Line(w), processed')  BY <2>1, <2>3, <2>5, ChargesLine
  <2>8. PICK s : /\ s = Proceed(w, Rest(w)) \/ s = [meter[w] EXCEPT !.pc = "count", !.todo = Rest(w)]
                 /\ meter' = [meter EXCEPT ![w] = s]
    BY <2>2
  <2>9. Rest(w) \in SUBSET meter[w].todo
        /\ \A l \in meter[w].todo \ Rest(w) : LineIn(Req(w), l, processed')
    BY <2>7 DEF Rest
  <2>10. Commits(w, s)
    <3>1. PICK rest \in SUBSET meter[w].todo : rest = Rest(w)  BY <2>9
    <3>2. s = Proceed(w, rest) \/ s = [meter[w] EXCEPT !.pc = "count", !.todo = rest]
      BY <2>8, <3>1
    <3>3. \A l \in meter[w].todo \ rest : LineIn(Req(w), l, processed')  BY <2>9, <3>1
    <3> QED BY ZenonT(60), <2>1, <3>2, <3>3, GoingOn DEF Commits
  <2> QED BY <1>a, <1>t, <2>1, <2>6, <2>8, <2>10 DEF Works
<1>8. ASSUME MeterCharged(w) PROVE \E t \in MeterStates : Moves(w, t)
  <2>1. meter[w].pc = "commit" /\ UNCHANGED <<mail, sent, dlq, identity, pending, processed>>
    BY <1>8 DEF MeterCharged
  <2>2. PICK b \in Believed(LineKey(w)) : Req(w) \in processed[RowOf(LineKey(w), b.window)]
    BY <1>8 DEF MeterCharged
  <2>3. PICK row \in Rows : row = RowOf(LineKey(w), b.window)  BY <2>1, Committing
  <2>4. LineIn(Req(w), Line(w), processed')  BY <2>1, <2>2, <2>3, ChargesLine
  <2>5. Rest(w) \in SUBSET meter[w].todo
        /\ \A l \in meter[w].todo \ Rest(w) : LineIn(Req(w), l, processed')
    BY <2>4 DEF Rest
  <2>6. Commits(w, Proceed(w, Rest(w)))
    <3>1. PICK rest \in SUBSET meter[w].todo : rest = Rest(w)  BY <2>5
    <3>2. \A l \in meter[w].todo \ rest : LineIn(Req(w), l, processed')  BY <2>5, <3>1
    <3>3. PICK s : s = Proceed(w, rest)  OBVIOUS
    <3>4. s = Proceed(w, rest) \/ s = [meter[w] EXCEPT !.pc = "count", !.todo = rest]
      BY <3>3
    <3>5. Commits(w, s)  BY ZenonT(60), <2>1, <3>2, <3>4, GoingOn DEF Commits
    <3> QED BY <3>1, <3>3, <3>5
  <2> QED BY <1>a, <1>g, <1>t, <1>8, <2>1, <2>6 DEF MeterCharged, Works
<1>9. ASSUME MeterCount(w) PROVE \E t \in MeterStates : Moves(w, t)
  <2>1. meter[w].pc = "count" /\ UNCHANGED <<mail, sent, dlq, identity, pending, processed>>
    BY <1>9 DEF MeterCount
  <2>2. Commits(w, Proceed(w, meter[w].todo))
    <3>1. meter[w].todo \in SUBSET meter[w].todo  OBVIOUS
    <3> QED BY <2>1, <3>1, GoingOn DEF Commits
  <2> QED BY <1>a, <1>g, <1>t, <1>9, <2>1, <2>2 DEF MeterCount, Works
<1>10. ASSUME MeterCrash(w) PROVE \E t \in MeterStates : Moves(w, t)
  <2>1. /\ meter[w].pc # "idle" /\ Retry(meter[w].msg)
        /\ UNCHANGED <<identity, pending, processed>>
        /\ meter' = [meter EXCEPT ![w] = IdleMeter]
    BY <1>10 DEF MeterCrash
  <2>2. meter[w].msg.tries < AsyncRetries =>
          LET m == [meter[w].msg EXCEPT !.tries = @ + 1] IN
          m \in Messages /\ m.kind = meter[w].msg.kind /\ m.req = Req(w)
    BY <1>0, <2>1, BoundsAssumption DEF Messages, Req
  <2>3. IdleMeter.pc = "idle"  BY DEF IdleMeter
  <2>4. GivesBack(w, IdleMeter)
    <3>1. CASE meter[w].msg.tries < AsyncRetries
      BY <2>1, <2>2, <2>3, <3>1 DEF GivesBack, Retry
    <3>2. CASE ~ (meter[w].msg.tries < AsyncRetries)
      BY <2>1, <2>3, <3>2 DEF GivesBack, Retry
    <3> QED BY <3>1, <3>2
  <2> QED BY <1>a, <1>g, <1>t, <2>1, <2>4 DEF Works, Retry
<1>11. ~ MeterRefused(w) /\ ~ MeterCountFails(w) /\ ~ MeterFault(w)
  BY Calm, HasRoom DEF MeterCountFails, MeterFault
<1> QED BY <1>1, <1>2, <1>3, <1>4, <1>5, <1>6, <1>7, <1>8, <1>9, <1>10, <1>11
        DEF MeterRuns, MeterFails

(***************************************************************************)
(* Nothing is lost silently.                                               *)
(***************************************************************************)
(* A commit that is over has billed the model line.                        *)
LEMMA CommitBills ==
  ASSUME IInv, NEW w \in Meters, NEW s, Commits(w, s), s.pc \in {"idle", "delete"}, Grows(w)
  PROVE  BilledIn(Req(w), processed')
<1>0. meter[w].pc \in {"commit", "count"} /\ Req(w) \in Requests
  BY DEF Commits, IInv, TypeInv, Handling, AtWork, Req, Messages
<1>1. CASE "model" \notin meter[w].todo
  <2>1. BilledIn(Req(w), processed)  BY <1>0, <1>1, BilledIs DEF IInv, Req
  <2> QED BY <2>1, BilledStays DEF Grows
<1>2. CASE "model" \in meter[w].todo
  <2>1. LineIn(Req(w), "model", processed')  BY <1>2 DEF Commits, GoesOn
  <2> QED BY <2>1 DEF LineIn, BilledIn, LensLines
<1> QED BY <1>1, <1>2

(* A step of the meter that has a log in hand passes it on.                *)
LEMMA MeterHolds ==
  ASSUME IInv, Kept, NEW w \in Meters, NEW s \in MeterStates, Moves(w, s)
  PROVE  Kept'
<1>0. /\ meter \in [Meters -> MeterStates]
      /\ \A v \in Meters : meter'[v] = IF v = w THEN s ELSE meter[v]
  <2>1. meter \in [Meters -> MeterStates]  BY DEF IInv, TypeInv, TypeOK
  <2> QED BY <2>1 DEF Moves
<1>1. /\ Grows(w) /\ Works(w, s)
      /\ \A q : BilledIn(q, processed) => BilledIn(q, processed')
  <2>1. Grows(w) /\ Works(w, s)  BY DEF Moves
  <2> QED BY <2>1, BilledStays DEF Grows
<1>2. Sorted(s) /\ (s.pc = "delete" => BilledIn(s.msg.req, processed'))
  <2>0. Sorted(meter[w]) /\ (meter[w].pc = "delete" => BilledIn(meter[w].msg.req, processed))
    BY DEF Kept
  <2>1. CASE Commits(w, s)
    <3>1. s.pc = "delete" => BilledIn(Req(w), processed')  BY <1>1, <2>1, CommitBills
    <3> QED BY <2>1, <3>1 DEF Commits, GoesOn, Sorted, Req
  <2>2. CASE Reads(w, s)
    BY <2>0, <2>2 DEF Reads, GoesOn, Sorted
  <2>3. CASE Skips(w, s) \/ Takes(w, s) \/ Starts(w, s) \/ Misses(w, s) \/ Parks(w, s)
             \/ Drops(w, s) \/ GivesBack(w, s)
    BY <2>0, <2>3 DEF Skips, Takes, Starts, Misses, Parks, Drops, GivesBack, GoesOn, Sorted
  <2> QED BY <1>1, <2>1, <2>2, <2>3 DEF Works
<1>3. ASSUME NEW v \in Meters
      PROVE  Sorted(meter'[v])
             /\ (meter'[v].pc = "delete" => BilledIn(meter'[v].msg.req, processed'))
  <2>1. CASE v = w  BY <1>0, <1>2, <2>1
  <2>2. CASE v # w
    <3>1. meter'[v] = meter[v]  BY <1>0, <2>2
    <3>2. Sorted(meter[v]) /\ (meter[v].pc = "delete" => BilledIn(meter[v].msg.req, processed))
      BY DEF Kept
    <3> QED BY <1>1, <3>1, <3>2
  <2> QED BY <2>1, <2>2
<1>4. ASSUME NEW r \in Requests, Held(r, mail, dlq, pending, processed, meter)
      PROVE  Held(r, mail', dlq', pending', processed', meter')
  <2> DEFINE After == Held(r, mail', dlq', pending', processed', meter')
  <2>w. AtLog(s) /\ s.msg.req = r => After  BY <1>0 DEF Held
  <2>1. CASE BilledIn(r, processed)  BY <1>1, <2>1 DEF Held
  <2>2. CASE r \in pending
    <3>1. CASE Drops(w, s)
      <4>1. BilledIn(Req(w), processed)  BY <3>1 DEF Drops, Kept, Req
      <4>2. r = Req(w) => After  BY <1>1, <4>1 DEF Held
      <4>3. r # Req(w) => After  BY <2>2, <3>1 DEF Drops, Held
      <4> QED BY <4>2, <4>3
    <3>2. CASE ~ Drops(w, s)
      <4>1. r \in pending'
        BY <1>1, <2>2, <3>2 DEF Works, Skips, Takes, Starts, Misses, Parks, Reads, Commits,
                                GivesBack, Same
      <4> QED BY <4>1 DEF Held
    <3> QED BY <3>1, <3>2
  <2>3. CASE Dead(r, dlq)
    <3>1. dlq \subseteq dlq'
      BY <1>1 DEF Works, Skips, Takes, Starts, Misses, Parks, Reads, Drops, Commits,
                  GivesBack, Same
    <3> QED BY <2>3, <3>1 DEF Dead, Held
  <2>4. CASE Mailed("log", r, mail)
    <3>1. PICK m \in mail : m.kind = "log" /\ m.req = r  BY <2>4 DEF Mailed
    <3>2. CASE m \in mail'  BY <3>1, <3>2 DEF Mailed, Held
    <3>3. CASE m \notin mail'
      <4>1. Skips(w, s) \/ Takes(w, s)
        BY <1>1, <3>1, <3>3 DEF Works, Starts, Misses, Parks, Reads, Drops, Commits,
                                GivesBack, Same
      <4>2. s.msg = m /\ s.pc = "identify"
        BY <3>1, <3>3, <4>1 DEF Skips, Takes
      <4> QED BY <2>w, <3>1, <4>2 DEF AtLog
    <3> QED BY <3>2, <3>3
  <2>5. ASSUME NEW v \in Meters, AtLog(meter[v]), meter[v].msg.req = r
        PROVE  After
    <3>1. CASE v # w  BY <1>0, <2>5, <3>1 DEF Held
    <3>2. CASE v = w
      <4>0. /\ meter[w].pc # "idle" /\ meter[w].msg.kind = "log" /\ Req(w) = r
            /\ Sorted(meter[w])
        BY <2>5, <3>2 DEF AtLog, Req, Kept
      <4>1. CASE s.pc # "idle" /\ s.msg = meter[w].msg
        BY <2>5, <3>2, <2>w, <4>1 DEF AtLog
      <4>2. CASE Parks(w, s)  BY <4>0, <4>2 DEF Parks, Held
      <4>3. CASE Commits(w, s) /\ s.pc \in {"idle", "delete"}
        BY <1>1, <4>0, <4>3, CommitBills DEF Held
      <4>4. CASE Commits(w, s) /\ s.pc \notin {"idle", "delete"}
        BY <4>1, <4>4 DEF Commits, GoesOn
      <4>5. CASE GivesBack(w, s)
        <5>1. Dead(r, dlq') \/ Mailed("log", r, mail')
          <6>1. CASE mail' = mail /\ dlq' = dlq \union {Letter(meter[w].msg)}
            <7>1. Letter(meter[w].msg).req = r  BY <4>0 DEF Letter, Req
            <7>2. Letter(meter[w].msg) \in dlq'  BY <6>1
            <7> QED BY <7>1, <7>2 DEF Dead
          <6>2. CASE \E m \in Messages : /\ m.kind = meter[w].msg.kind /\ m.req = Req(w)
                                         /\ mail' = mail \union {m}
            BY <4>0, <6>2 DEF Mailed
          <6> QED BY <4>5, <6>1, <6>2 DEF GivesBack
        <5> QED BY <5>1 DEF Held
      <4>6. CASE Starts(w, s) \/ Misses(w, s)
        BY <4>1, <4>6 DEF Starts, Misses, GoesOn
      <4>7. ~ Skips(w, s) /\ ~ Takes(w, s) /\ ~ Reads(w, s) /\ ~ Drops(w, s)
        BY <4>0 DEF Skips, Takes, Reads, Drops, Sorted
      <4> QED BY <1>1, <4>2, <4>3, <4>4, <4>5, <4>6, <4>7 DEF Works
    <3> QED BY <3>1, <3>2
  <2> QED BY <1>4, <2>1, <2>2, <2>3, <2>4, <2>5 DEF Held
<1>5. \A r \in Requests : Served(r)' => Served(r)  BY DEF Served, Moves
<1>6. \A r \in Requests : Served(r)' => Held(r, mail', dlq', pending', processed', meter')
  BY <1>4, <1>5 DEF Kept
<1> QED BY <1>3, <1>6 DEF Kept

(* What the identity cache and the surroundings do to the meter's work.    *)
Around ==
  /\ meter' = meter /\ processed' = processed /\ pending' = pending
  /\ identity \subseteq identity' /\ dlq \subseteq dlq'
  /\ \A m \in mail : m \in mail' \/ m.kind = "trail"
  /\ \A r \in Requests : Served(r)' => Served(r) \/ Mailed("log", r, mail')

(* What is sent is in the mail.                                            *)
LEMMA Sending ==
  ASSUME NEW ls \in SUBSET Letters, Send(ls)
  PROVE  /\ \A m \in mail : m \in mail' \/ m.kind = "trail"
         /\ \A r \in Requests : Served(r)' => Served(r) \/ Mailed("log", r, mail')
<1>1. mail \subseteq mail'  BY DEF Send
<1>2. ASSUME NEW r \in Requests, [kind |-> "log", req |-> r] \in sent'
      PROVE  Served(r) \/ Mailed("log", r, mail')
  <2>1. PICK l : l = [kind |-> "log", req |-> r]  OBVIOUS
  <2>2. l \in sent \/ l \in ls  BY <1>2, <2>1 DEF Send
  <2>3. l \in ls => Fresh(l) \in mail'  BY DEF Send
  <2>4. Fresh(l).kind = "log" /\ Fresh(l).req = r  BY <2>1 DEF Fresh
  <2> QED BY <2>1, <2>2, <2>3, <2>4 DEF Mailed, Served
<1> QED BY <1>1, <1>2 DEF Served

(* Without faults and expiries only what completes a bill is added.        *)
LEMMA TracerAround ==
  ASSUME TypeInv, Undisturbed, NEW x \in Tracers, TracerRuns(x) \/ TracerFails(x),
         tracer[x].pc # "idle" => tracer[x].msg.kind = "trail"
  PROVE  Around
<1> USE DEF post, join, ledger
<1>1. ASSUME NEW m \in mail, TracerTake(x, m) PROVE Around
  BY <1>1 DEF TracerTake, Take, Around, Served
<1>2. ASSUME TracerNote(x) \/ TracerSee(x) \/ TracerLook(x) PROVE Around
  BY <1>2 DEF TracerNote, TracerSee, TracerLook, Around, Served
<1>3. ASSUME TracerEmit(x) PROVE Around
  <2>1. {[kind |-> "arrived", req |-> tracer[x].msg.req]} \in SUBSET Letters
    BY <1>3 DEF TracerEmit, TypeInv, Handling, Messages, Letters, Kinds
  <2>2. PICK ls \in SUBSET Letters : Send(ls)  BY <1>3, <2>1 DEF TracerEmit
  <2>3. /\ \A m \in mail : m \in mail' \/ m.kind = "trail"
        /\ \A r \in Requests : Served(r)' => Served(r) \/ Mailed("log", r, mail')
    BY <2>2, Sending
  <2> QED BY <1>3, <2>3 DEF TracerEmit, Around
<1>4. ASSUME TracerCrash(x) PROVE Around
  BY <1>4 DEF TracerCrash, Retry, Around, Served
<1>5. ~ TracerLookFails(x)  BY Calm DEF TracerLookFails
<1> QED BY <1>1, <1>2, <1>3, <1>4, <1>5 DEF TracerRuns, TracerFails

(* A step around the meters, of logs, queue, timers or budgets, has the shape of
   Around. *)
LEMMA SurroundingsAround ==
  ASSUME TypeInv, Undisturbed, Surroundings
  PROVE  Around
<1> USE DEF post, join, ledger, budgets
<1>1. ASSUME NEW r \in Requests, Invoke(r) PROVE Around
  <2>1. PICK ls \in SUBSET Letters : Send(ls)  BY <1>1 DEF Invoke
  <2>3. /\ \A m \in mail : m \in mail' \/ m.kind = "trail"
        /\ \A q \in Requests : Served(q)' => Served(q) \/ Mailed("log", q, mail')
    BY <2>1, Sending
  <2> QED BY <1>1, <2>3 DEF Invoke, Around
<1>2. ASSUME NEW r \in Requests, DrainScript(r) PROVE Around
  <2>1. {[kind |-> "arrived", req |-> r]} \in SUBSET Letters  BY DEF Letters, Kinds
  <2>2. PICK ls \in SUBSET Letters : Send(ls)  BY <1>2, <2>1 DEF DrainScript
  <2>3. /\ \A m \in mail : m \in mail' \/ m.kind = "trail"
        /\ \A q \in Requests : Served(q)' => Served(q) \/ Mailed("log", q, mail')
    BY <2>2, Sending
  <2> QED BY <1>2, <2>3 DEF DrainScript, Around
<1>3. ASSUME NEW l \in sent, Redeliver(l) PROVE Around
  BY <1>3 DEF Redeliver, Around, Served
<1>4. ASSUME NEW k \in Keys, NEW b \in Metas, AdminBudget(k, b) PROVE Around
  BY <1>4 DEF AdminBudget, Around, Served
<1>5. ASSUME NEW k \in Keys, CachesExpire(k) PROVE Around
  BY <1>5 DEF CachesExpire, Around, Served
<1>6. /\ \A k \in Keys : ~ BudgetReadFails(k)
      /\ \A r \in Requests : ~ ExpireIdentity(r) /\ ~ ExpirePending(r)
  BY Calm DEF BudgetReadFails, ExpireIdentity, ExpirePending
<1> QED BY <1>1, <1>2, <1>3, <1>4, <1>5, <1>6 DEF Surroundings

(* A step around the meters loses no request. *)
LEMMA AroundHolds ==
  ASSUME Kept, Around
  PROVE  Kept'
<1>1. ASSUME NEW r \in Requests, Held(r, mail, dlq, pending, processed, meter)
      PROVE  Held(r, mail', dlq', pending', processed', meter')
  <2>1. Mailed("log", r, mail) => Mailed("log", r, mail')  BY DEF Around, Mailed
  <2>2. Dead(r, dlq) => Dead(r, dlq')  BY DEF Around, Dead
  <2> QED BY <1>1, <2>1, <2>2 DEF Around, Held
<1>2. ASSUME NEW r \in Requests, Served(r)'
      PROVE  Held(r, mail', dlq', pending', processed', meter')
  <2>1. Served(r) \/ Mailed("log", r, mail')  BY <1>2 DEF Around
  <2> QED BY <1>1, <2>1 DEF Kept, Held
<1>3. \A v \in Meters : Sorted(meter'[v])
         /\ (meter'[v].pc = "delete" => BilledIn(meter'[v].msg.req, processed'))
  BY DEF Around, Kept
<1> QED BY <1>2, <1>3 DEF Kept

(* The meter leaves the identity cache alone.                              *)
LEMMA MeterLeavesTracer ==
  ASSUME NEW w \in Meters, MeterRuns(w) \/ MeterFails(w)
  PROVE  UNCHANGED tracer
BY DEF MeterRuns, MeterFails, MeterSkip, MeterTake, MeterIdentify, MeterPark, MeterFetch,
   MeterLookup, MeterDelete, MeterCharge, MeterCharged, MeterRefused, MeterCount,
   MeterCountFails, MeterFault, MeterCrash

(* The identity cache works on CloudTrail events.                          *)
Tracing == \A x \in Tracers : tracer[x].pc # "idle" => tracer[x].msg.kind = "trail"

(* What a meter read of the trail stays in the trail. *)
LEMMA NextTracing ==
  ASSUME IInv, Tracing, [Next]_vars
  PROVE  Tracing'
<1>0. tracer \in [Tracers -> TracerStates]  BY DEF IInv, TypeInv, TypeOK
<1>1. CASE UNCHANGED tracer  BY <1>1 DEF Tracing
<1>2. ASSUME NEW x \in Tracers, TracerRuns(x) \/ TracerFails(x) PROVE Tracing'
  <2>1. ASSUME NEW s, tracer' = [tracer EXCEPT ![x] = s],
               s.pc # "idle" => s.msg.kind = "trail"
        PROVE  Tracing'
    BY <1>0, <2>1 DEF Tracing
  <2>2. ASSUME NEW pc \in TracerPc, Goto(x, pc), tracer[x].pc # "idle" PROVE Tracing'
    <3>1. PICK s : s = [tracer[x] EXCEPT !.pc = pc]  OBVIOUS
    <3>2. s.msg.kind = "trail"  BY <1>0, <2>2, <3>1 DEF Tracing, TracerStates
    <3>3. tracer' = [tracer EXCEPT ![x] = s]  BY <1>0, <2>2, <3>1 DEF Goto
    <3> QED BY <2>1, <3>2, <3>3
  <2>3. ASSUME Finish(x) PROVE Tracing'
    <3>1. IdleTracer.pc = "idle"  BY DEF IdleTracer
    <3> QED BY <2>1, <2>3, <3>1 DEF Finish
  <2>4. ASSUME NEW m \in mail, TracerTake(x, m) PROVE Tracing'
    <3>1. PICK s : s = [pc |-> "note", msg |-> m]  OBVIOUS
    <3>2. s.msg.kind = "trail" /\ tracer' = [tracer EXCEPT ![x] = s]
      BY <2>4, <3>1 DEF TracerTake
    <3> QED BY <2>1, <3>2
  <2> QED BY <1>2, <2>2, <2>3, <2>4 DEF TracerRuns, TracerFails, TracerNote, TracerSee,
             TracerLook, TracerEmit, TracerLookFails, TracerCrash, TracerPc
<1>3. ASSUME NEW w \in Meters, MeterRuns(w) \/ MeterFails(w) PROVE UNCHANGED tracer
  BY <1>3, MeterLeavesTracer
<1>4. ASSUME Surroundings PROVE UNCHANGED tracer
  BY <1>4 DEF Surroundings, Invoke, DrainScript, ExpireIdentity, ExpirePending, Redeliver,
     AdminBudget, CachesExpire, BudgetReadFails
<1> QED BY <1>1, <1>2, <1>3, <1>4 DEF Next, vars

(* A step is one of the meter's, or goes on around it.                     *)
LEMMA StepShape ==
  ASSUME Undisturbed, IInv, Tracing, [Next]_vars
  PROVE  Around \/ \E w \in Meters : \E s \in MeterStates : Moves(w, s)
<1>0. TypeInv  BY DEF IInv
<1>1. CASE UNCHANGED vars
  BY <1>1 DEF vars, post, join, ledger, Around, Served
<1>2. ASSUME NEW w \in Meters, MeterRuns(w) \/ MeterFails(w)
      PROVE  \E s \in MeterStates : Moves(w, s)
  BY <1>0, <1>2, MeterFacts
<1>3. ASSUME NEW x \in Tracers, TracerRuns(x) \/ TracerFails(x) PROVE Around
  BY <1>0, <1>3, TracerAround DEF Tracing
<1>4. CASE Surroundings  BY <1>0, <1>4, SurroundingsAround
<1> QED BY <1>1, <1>2, <1>3, <1>4 DEF Next

(* At first nothing is to be kept. *)
LEMMA InitKept == Init => Kept /\ Tracing
<1> SUFFICES ASSUME Init PROVE Kept /\ Tracing  OBVIOUS
<1>1. Kept  BY DEF Init, Kept, Sorted, IdleMeter, Served
<1>2. Tracing  BY DEF Init, Tracing, IdleTracer
<1> QED BY <1>1, <1>2

(* An undisturbed step loses no request that was logged. *)
LEMMA NextKept ==
  Undisturbed => (IInv /\ Kept /\ Tracing /\ [Next]_vars => Kept' /\ Tracing')
<1> SUFFICES ASSUME Undisturbed, IInv, Kept, Tracing, [Next]_vars PROVE Kept' /\ Tracing'
  OBVIOUS
<1>1. Tracing'  BY NextTracing
<1>2. Kept'  BY StepShape, MeterHolds, AroundHolds
<1> QED BY <1>1, <1>2

(* Without faults and expiries, a log is billed, parked or in the          *)
(* dead-letter queue when everything has settled: a crash of either Lambda *)
(* between any two of its calls loses nothing silently.                    *)
THEOREM NothingLost == Undisturbed => (Spec => []NoSilentLoss)
<1> SUFFICES ASSUME Undisturbed PROVE Spec => []NoSilentLoss  OBVIOUS
<1>1. Kept => NoSilentLoss
  <2> SUFFICES ASSUME Kept, Settled, NEW r \in Requests, Served(r)
               PROVE  Billed(r) \/ r \in pending \/ InDlq(r)
    BY DEF NoSilentLoss
  <2>1. Held(r, mail, dlq, pending, processed, meter)  BY DEF Kept
  <2>2. ~ Mailed("log", r, mail)  BY DEF Settled, Mailed
  <2>3. \A v \in Meters : ~ AtLog(meter[v])  BY DEF Settled, AtLog
  <2> QED BY <2>1, <2>2, <2>3, BilledIs DEF Held, Dead, InDlq
<1>2. IInv /\ Kept /\ Tracing /\ [Next]_vars => Kept' /\ Tracing'  BY NextKept
<1> QED BY <1>1, <1>2, Inductive, InitKept, PTL DEF Spec

(***************************************************************************)
(* A bill that was begun is completed.                                     *)
(***************************************************************************)
(* What is on the bill stays, line by line.                                *)
LEMMA LinesStay ==
  ASSUME NEW r, NEW old, NEW new, \A row \in Rows : old[row] \subseteq new[row]
  PROVE  /\ \A l : LineIn(r, l, old) => LineIn(r, l, new)
         /\ AllIn(r, old) => AllIn(r, new)
<1>1. \A l : LineIn(r, l, old) => LineIn(r, l, new)  BY DEF LineIn
<1> QED BY <1>1 DEF AllIn

(* With the lenses known from CloudTrail alone, a log that names its       *)
(* principal is billed on all its lines without it.                        *)
LEMMA NoLensLost ==
  ASSUME LensesFromTrail, NEW r \in Requests, LogOwner[r] # NoOwner
  PROVE  LinesOf(r, FALSE) = LinesOf(r, TRUE)
BY DEF LensesFromTrail, LinesOf, LensLines

(* What a step of the meter leaves of what was parked.                     *)
LEMMA Parked ==
  ASSUME NEW w \in Meters, NEW s, Works(w, s), NEW r \in pending, r \notin pending'
  PROVE  r = Req(w) /\ Drops(w, s)
BY DEF Works, Skips, Takes, Starts, Misses, Parks, Reads, Drops, Commits, GivesBack, Same

(* The work of the invocation that moves.                                  *)
LEMMA WorkMoves ==
  ASSUME TypeInv, LensesFromTrail, Announced, NEW w \in Meters, NEW s \in MeterStates,
         WorkIn(meter[w], identity, pending, processed), Moves(w, s)
  PROVE  WorkIn(s, identity', pending', processed')
<1>0. /\ identity' = identity /\ Works(w, s)
      /\ \A row \in Rows : processed[row] \subseteq processed'[row]
  BY DEF Moves, Grows
<1>1. CASE Skips(w, s) \/ Parks(w, s) \/ Drops(w, s) \/ GivesBack(w, s)
  <2>1. s.pc = "idle"  BY <1>1 DEF Skips, Parks, Drops, GivesBack
  <2> QED BY <2>1 DEF WorkIn
<1>2. CASE Takes(w, s)
  <2>1. PICK m \in mail : /\ s.msg = m
                         /\ \/ m.kind = "log" /\ s.pc = "identify"
                            \/ m.kind = "arrived" /\ s.pc = "fetch"
    BY <1>2 DEF Takes
  <2>2. m.kind = "arrived" => m.req \in identity'  BY <1>0 DEF Announced
  <2> QED BY <2>1, <2>2 DEF WorkIn, Sorted
<1>p. ASSUME meter[w].pc # "idle"
      PROVE  /\ Sorted(meter[w]) /\ Req(w) \in Requests
             /\ meter[w].msg.kind = "arrived" => Req(w) \in identity
             /\ meter[w].pc \in {"commit", "count"} =>
                  /\ Knows(Req(w), identity)
                  /\ \A l \in LinesOf(Req(w), TRUE) :
                       LineIn(Req(w), l, processed) \/ l \in meter[w].todo
             /\ meter[w].msg.kind = "arrived" /\ meter[w].pc \in {"lookup", "commit", "count"}
                  => Req(w) \in pending \/ AllIn(Req(w), processed)
  BY <1>p DEF WorkIn, Req, TypeInv, Handling, AtWork, Messages
<1>3. CASE Starts(w, s)
  <2>1. /\ meter[w].pc \in {"identify", "lookup"} /\ s.pc = "commit" /\ s.msg = meter[w].msg
        /\ pending' = pending /\ processed' = processed
    BY <1>3 DEF Starts, GoesOn, Same
  <2>2. meter[w].pc = "lookup" => Req(w) \in identity  BY <1>p, <2>1 DEF Sorted
  <2>3. Knows(Req(w), identity) /\ s.todo = LinesOf(Req(w), TRUE)
    BY <1>3, <1>p, <2>1, <2>2, NoLensLost DEF Starts, Knows
  <2>4. s.msg.kind = "arrived" => Req(w) \in pending \/ AllIn(Req(w), processed)
    BY <1>p, <2>1 DEF Sorted
  <2> QED BY <1>0, <1>p, <2>1, <2>3, <2>4 DEF WorkIn, Sorted, Req
<1>4. CASE Misses(w, s)
  <2>1. s.pc = "park" /\ s.msg = meter[w].msg /\ meter[w].pc = "identify"
    BY <1>4 DEF Misses, GoesOn
  <2> QED BY <1>p, <2>1 DEF WorkIn, Sorted, Req
<1>5. CASE Reads(w, s)
  <2>1. CASE s.pc = "idle"  BY <2>1 DEF WorkIn
  <2>2. CASE s.pc # "idle"
    <3>1. /\ s.pc = "lookup" /\ s.msg = meter[w].msg /\ meter[w].pc = "fetch"
          /\ Req(w) \in pending /\ pending' = pending
      BY <1>5, <2>2 DEF Reads, GoesOn, Same
    <3> QED BY <1>0, <1>p, <3>1 DEF WorkIn, Sorted, Req
  <2> QED BY <2>1, <2>2
<1>6. CASE Commits(w, s)
  <2>0. meter[w].pc \in {"commit", "count"} /\ pending' = pending
    BY <1>6 DEF Commits
  <2>1. PICK rest \in SUBSET meter[w].todo :
       /\ \A l \in meter[w].todo \ rest : LineIn(Req(w), l, processed')
       /\ \/ rest = {} /\ GoesOn(w, s, "delete")
          \/ s.pc = "idle"
          \/ s.todo = rest /\ (GoesOn(w, s, "commit") \/ GoesOn(w, s, "count"))
       /\ s.pc = "delete" => meter[w].msg.kind = "arrived"
    BY <1>6 DEF Commits, GoesOn
  <2>2. \A l \in LinesOf(Req(w), TRUE) : LineIn(Req(w), l, processed') \/ l \in rest
    BY <1>0, <1>p, <2>0, <2>1, LinesStay
  <2>3. AllIn(Req(w), processed) => AllIn(Req(w), processed')  BY <1>0, LinesStay
  <2>4. CASE s.pc = "idle"  BY <2>4 DEF WorkIn
  <2>5. CASE GoesOn(w, s, "delete") /\ rest = {}
    <3>1. AllIn(Req(w), processed')  BY <2>2, <2>5 DEF AllIn
    <3>2. s.msg.kind = "arrived"  BY <2>1, <2>5 DEF GoesOn
    <3> QED BY <1>0, <1>p, <2>0, <2>5, <3>1, <3>2 DEF WorkIn, Sorted, GoesOn, Req
  <2>6. CASE s.todo = rest /\ (GoesOn(w, s, "commit") \/ GoesOn(w, s, "count"))
    BY <1>0, <1>p, <2>0, <2>2, <2>3, <2>6 DEF WorkIn, Sorted, GoesOn, Req
  <2> QED BY <2>1, <2>4, <2>5, <2>6
<1> QED BY <1>0, <1>1, <1>2, <1>3, <1>4, <1>5, <1>6 DEF Works

(* The work of the others.                                                 *)
LEMMA WorkStays ==
  ASSUME NEW s, NEW id, NEW id1, NEW old, NEW new, NEW parked, NEW parked1,
         WorkIn(s, id, parked, old), id \subseteq id1,
         \A row \in Rows : old[row] \subseteq new[row],
         \A r \in parked : r \in parked1 \/ AllIn(r, new)
  PROVE  WorkIn(s, id1, parked1, new)
<1>1. /\ \A l : LineIn(s.msg.req, l, old) => LineIn(s.msg.req, l, new)
      /\ AllIn(s.msg.req, old) => AllIn(s.msg.req, new)
  BY LinesStay
<1> QED BY <1>1 DEF WorkIn, Knows

(* Who is accounted for stays so, whatever the meter does.                 *)
LEMMA AccountMoves ==
  ASSUME IInv, NEW w \in Meters, NEW s \in MeterStates, Moves(w, s),
         WorkIn(meter[w], identity, pending, processed),
         NEW r \in Requests, Knows(r, identity),
         Accounted(r, mail, dlq, pending, processed, meter)
  PROVE  Accounted(r, mail', dlq', pending', processed', meter')
<1> DEFINE After == Accounted(r, mail', dlq', pending', processed', meter')
<1>0. /\ identity' = identity /\ Works(w, s)
      /\ \A row \in Rows : processed[row] \subseteq processed'[row]
      /\ \A v \in Meters : meter'[v] = IF v = w THEN s ELSE meter[v]
  <2>1. meter \in [Meters -> MeterStates]  BY DEF IInv, TypeInv, TypeOK
  <2> QED BY <2>1 DEF Moves, Grows
<1>a. AllIn(r, processed) => After  BY <1>0, LinesStay DEF Accounted
<1>d. Dead(r, dlq') => After  BY DEF Accounted
<1>l. CarriesLog(s) /\ s.msg.req = r => After  BY <1>0 DEF Accounted, Underway
<1>m. Mailed("log", r, mail') => After  BY DEF Accounted, Underway
<1>c. CarriesArrived(s) /\ s.msg.req = r /\ r \in pending' => After
  BY <1>0 DEF Accounted, Underway
<1>n. Mailed("arrived", r, mail') /\ r \in pending' => After  BY DEF Accounted, Underway
<1>p. r \in pending => r \in pending' \/ After
  <2> SUFFICES ASSUME r \in pending, r \notin pending' PROVE After  OBVIOUS
  <2>1. r = Req(w) /\ Drops(w, s)  BY <1>0, Parked
  <2>2. AllIn(r, processed)  BY <2>1 DEF Drops, WorkIn, Req
  <2> QED BY <1>a, <2>2
<1>g. ASSUME GivesBack(w, s), Req(w) = r
      PROVE  Dead(r, dlq') \/ Mailed(meter[w].msg.kind, r, mail')
  <2>1. CASE \E m \in Messages : /\ m.kind = meter[w].msg.kind /\ m.req = Req(w)
                                 /\ mail' = mail \union {m}
    BY <1>g, <2>1 DEF Mailed
  <2>2. CASE dlq' = dlq \union {Letter(meter[w].msg)}
    <3>1. Letter(meter[w].msg).req = r  BY <1>g DEF Letter, Req
    <3>2. Letter(meter[w].msg) \in dlq'  BY <2>2
    <3> QED BY <3>1, <3>2 DEF Dead
  <2> QED BY <1>g, <2>1, <2>2 DEF GivesBack
<1>t. ASSUME NEW m \in mail, m \notin mail', m.kind \in {"log", "arrived"}
      PROVE  /\ s.msg = m
             /\ \/ m.kind = "log" /\ s.pc = "identify"
                \/ m.kind = "arrived" /\ s.pc = "fetch"
  <2>1. Skips(w, s) \/ Takes(w, s)
    BY <1>0, <1>t DEF Works, Starts, Misses, Parks, Reads, Drops, Commits, GivesBack, Same
  <2> QED BY <1>t, <2>1 DEF Skips, Takes
<1>1. CASE AllIn(r, processed)  BY <1>a, <1>1
<1>2. CASE Dead(r, dlq)
  <2>1. dlq \subseteq dlq'
    BY <1>0 DEF Works, Skips, Takes, Starts, Misses, Parks, Reads, Drops, Commits, GivesBack, Same
  <2> QED BY <1>d, <1>2, <2>1 DEF Dead
<1>3. CASE Mailed("log", r, mail)
  <2>1. PICK m \in mail : m.kind = "log" /\ m.req = r  BY <1>3 DEF Mailed
  <2>2. CASE m \in mail'  BY <1>m, <2>1, <2>2 DEF Mailed
  <2>3. CASE m \notin mail'
    <3>1. s.msg = m /\ s.pc = "identify"  BY <1>t, <2>1, <2>3
    <3> QED BY <1>l, <2>1, <3>1 DEF CarriesLog
  <2> QED BY <2>2, <2>3
<1>4. CASE r \in pending /\ Mailed("arrived", r, mail)
  <2>1. PICK m \in mail : m.kind = "arrived" /\ m.req = r  BY <1>4 DEF Mailed
  <2>2. CASE m \in mail'  BY <1>n, <1>p, <1>4, <2>1, <2>2 DEF Mailed
  <2>3. CASE m \notin mail'
    <3>1. s.msg = m /\ s.pc = "fetch"  BY <1>t, <2>1, <2>3
    <3> QED BY <1>c, <1>p, <1>4, <2>1, <3>1 DEF CarriesArrived
  <2> QED BY <2>2, <2>3
<1>s. meter[w].pc # "idle" => Sorted(meter[w]) /\ ~ Skips(w, s) /\ ~ Takes(w, s)
  BY DEF WorkIn, Skips, Takes
<1>5. ASSUME NEW v \in Meters, CarriesLog(meter[v]), meter[v].msg.req = r
      PROVE  After
  <2>1. CASE v # w  BY <1>0, <1>5, <2>1 DEF Accounted, Underway
  <2>2. CASE v = w
    <3>0. /\ meter[w].pc \in {"identify", "commit", "count"} /\ meter[w].msg.kind = "log"
          /\ Req(w) = r
      BY <1>5, <2>2 DEF CarriesLog, Req
    <3>1. CASE Starts(w, s)
      BY <1>l, <3>0, <3>1 DEF Starts, GoesOn, CarriesLog, Req
    <3>2. ~ Misses(w, s)  BY <3>0 DEF Misses
    <3>3. ~ Parks(w, s) /\ ~ Reads(w, s) /\ ~ Drops(w, s)
      BY <3>0 DEF Parks, Reads, Drops
    <3>4. CASE Commits(w, s)
      <4>1. CASE s.pc \in {"commit", "count"} /\ s.msg = meter[w].msg
        BY <1>l, <3>0, <4>1 DEF CarriesLog, Req
      <4>2. CASE \A l \in meter[w].todo : LineIn(r, l, processed')
        <5>1. \A l \in LinesOf(r, TRUE) : LineIn(r, l, processed) \/ l \in meter[w].todo
          BY <3>0, <3>4 DEF Commits, WorkIn, Req
        <5>2. AllIn(r, processed')  BY <1>0, <4>2, <5>1, LinesStay DEF AllIn
        <5> QED BY <5>2 DEF Accounted
      <4> QED BY <3>0, <3>4, <4>1, <4>2 DEF Commits, GoesOn
    <3>5. CASE GivesBack(w, s)  BY <1>d, <1>m, <1>g, <3>0, <3>5
    <3> QED BY <1>0, <1>s, <3>0, <3>1, <3>2, <3>3, <3>4, <3>5 DEF Works
  <2> QED BY <2>1, <2>2
<1>6. ASSUME NEW v \in Meters, CarriesArrived(meter[v]), meter[v].msg.req = r, r \in pending
      PROVE  After
  <2>0. r \in pending' \/ After  BY <1>p, <1>6
  <2>1. CASE v # w  BY <1>0, <1>6, <2>0, <2>1 DEF Accounted, Underway
  <2>2. CASE v = w
    <3>0. meter[w].pc # "idle" /\ meter[w].msg.kind = "arrived" /\ Req(w) = r
      BY <1>6, <2>2 DEF CarriesArrived, Req
    <3>1. CASE s.pc # "idle" /\ s.msg = meter[w].msg
      BY <1>c, <2>0, <3>0, <3>1 DEF CarriesArrived, Req
    <3>2. CASE Starts(w, s)  BY <3>1, <3>2 DEF Starts, GoesOn
    <3>3. CASE Reads(w, s)  BY <1>6, <3>0, <3>1, <3>3 DEF Reads, GoesOn
    <3>4. CASE Drops(w, s)
      <4>1. AllIn(r, processed)  BY <3>0, <3>4 DEF Drops, WorkIn, Req
      <4> QED BY <1>a, <4>1
    <3>5. CASE Commits(w, s)
      BY <3>0, <3>1, <3>5 DEF Commits, GoesOn
    <3>6. CASE GivesBack(w, s)  BY <1>d, <1>g, <1>n, <2>0, <3>0, <3>6
    <3>7. ~ Misses(w, s) /\ ~ Parks(w, s)
      BY <1>s, <3>0 DEF Misses, Parks, Sorted
    <3> QED BY <1>0, <1>s, <3>0, <3>2, <3>3, <3>4, <3>5, <3>6, <3>7 DEF Works
  <2> QED BY <2>1, <2>2
<1> QED BY <1>1, <1>2, <1>3, <1>4, <1>5, <1>6 DEF Accounted, Underway

(* The meter announces nothing: it gives back what it took.                *)
LEMMA MeterAnnounces ==
  ASSUME Announced, NEW w \in Meters, NEW s \in MeterStates, Moves(w, s),
         WorkIn(meter[w], identity, pending, processed), UNCHANGED tracer
  PROVE  Announced'
<1>0. sent' = sent /\ identity' = identity /\ Works(w, s)  BY DEF Moves
<1>1. CASE ~ GivesBack(w, s)
  <2>1. mail' \subseteq mail
    BY <1>0, <1>1 DEF Works, Skips, Takes, Starts, Misses, Parks, Reads, Drops, Commits, Same
  <2> QED BY <1>0, <2>1 DEF Announced
<1>2. CASE GivesBack(w, s)
  <2>1. meter[w].msg.kind = "arrived" => Req(w) \in identity
    BY <1>2 DEF GivesBack, WorkIn, Req
  <2>2. \A m \in mail' : m \in mail \/ (m.kind = meter[w].msg.kind /\ m.req = Req(w))
    BY <1>2 DEF GivesBack
  <2> QED BY <1>0, <2>1, <2>2 DEF Announced
<1> QED BY <1>1, <1>2

(* What is sent has been noted first.                                      *)
LEMMA SendAnnounces ==
  ASSUME Announced, NEW ls \in SUBSET Letters, Send(ls), UNCHANGED identity,
         \A l \in ls : l.kind = "arrived" => l.req \in identity
  PROVE  /\ \A l \in sent' : l.kind = "arrived" => l.req \in identity'
         /\ \A m \in mail' : m.kind = "arrived" => m.req \in identity'
<1>1. \A l \in ls : Fresh(l).kind = l.kind /\ Fresh(l).req = l.req  BY DEF Fresh
<1>2. \A m \in mail' : m \in mail \/ \E l \in ls : m = Fresh(l)  BY DEF Send
<1>3. sent' = sent \union ls  BY DEF Send
<1> QED BY <1>1, <1>2, <1>3 DEF Announced

(* The identity cache announces what it has noted.                         *)
LEMMA TracerAnnounces ==
  ASSUME TypeInv, Undisturbed, Announced, NEW x \in Tracers, TracerRuns(x) \/ TracerFails(x)
  PROVE  Announced'
<1> USE DEF post, join
<1>0. /\ tracer \in [Tracers -> TracerStates] /\ tracer[x] \in TracerStates
      /\ tracer[x].pc # "idle" => tracer[x].msg \in Messages /\ tracer[x].msg.kind = "trail"
      /\ tracer[x].pc \in {"see", "look", "emit"} => tracer[x].msg.req \in identity
  BY DEF TypeInv, TypeOK, Handling, Announced
<1>a. ASSUME NEW s, tracer' = [tracer EXCEPT ![x] = s], identity \subseteq identity',
             s.pc # "idle" => s.msg.kind = "trail",
             s.pc \in {"see", "look", "emit"} => s.msg.req \in identity',
             \A l \in sent' : l.kind = "arrived" => l.req \in identity',
             \A m \in mail' : m.kind = "arrived" => m.req \in identity'
      PROVE  Announced'
  <2>1. \A y \in Tracers : tracer'[y] = IF y = x THEN s ELSE tracer[y]  BY <1>0, <1>a
  <2> QED BY <1>a, <2>1 DEF Announced
<1>b. ASSUME identity \subseteq identity', UNCHANGED <<sent, mail>>
      PROVE  /\ \A l \in sent' : l.kind = "arrived" => l.req \in identity'
             /\ \A m \in mail' : m.kind = "arrived" => m.req \in identity'
  BY <1>b DEF Announced
<1>i. IdleTracer.pc = "idle"  BY DEF IdleTracer
<1>1. ASSUME NEW m \in mail, TracerTake(x, m) PROVE Announced'
  <2>1. PICK s : s = [pc |-> "note", msg |-> m]  OBVIOUS
  <2>2. s.pc = "note" /\ s.msg.kind = "trail" /\ tracer' = [tracer EXCEPT ![x] = s]
    BY <1>1, <2>1 DEF TracerTake
  <2>3. sent' = sent /\ mail' \subseteq mail /\ identity' = identity
    BY <1>1 DEF TracerTake, Take
  <2>4. /\ \A l \in sent' : l.kind = "arrived" => l.req \in identity'
        /\ \A n \in mail' : n.kind = "arrived" => n.req \in identity'
    BY <2>3 DEF Announced
  <2> QED BY <1>a, <2>2, <2>3, <2>4
<1>2. ASSUME NEW pc \in {"see", "look", "emit"}, Goto(x, pc), tracer[x].pc # "idle",
             identity \subseteq identity', tracer[x].msg.req \in identity',
             UNCHANGED <<sent, mail>>
      PROVE  Announced'
  <2>1. PICK s : s = [tracer[x] EXCEPT !.pc = pc]  OBVIOUS
  <2>2. s.pc = pc /\ s.msg = tracer[x].msg  BY <1>0, <2>1 DEF TracerStates
  <2>3. tracer' = [tracer EXCEPT ![x] = s]  BY <1>0, <1>2, <2>1 DEF Goto
  <2> QED BY <1>0, <1>a, <1>b, <1>2, <2>2, <2>3
<1>3. ASSUME TracerNote(x) PROVE Announced'
  BY <1>2, <1>3 DEF TracerNote
<1>4. ASSUME TracerSee(x) PROVE Announced'
  BY <1>0, <1>2, <1>4 DEF TracerSee
<1>5. ASSUME TracerLook(x) PROVE Announced'
  <2>1. CASE Goto(x, "emit")  BY <1>0, <1>2, <1>5, <2>1 DEF TracerLook
  <2>2. CASE Finish(x)  BY <1>a, <1>b, <1>i, <1>5, <2>2 DEF TracerLook, Finish
  <2> QED BY <1>5, <2>1, <2>2 DEF TracerLook
<1>6. ASSUME TracerEmit(x) PROVE Announced'
  <2>1. {[kind |-> "arrived", req |-> tracer[x].msg.req]} \in SUBSET Letters
    BY <1>0, <1>6 DEF TracerEmit, Messages, Letters, Kinds
  <2>2. PICK ls \in SUBSET Letters : ls = {[kind |-> "arrived", req |-> tracer[x].msg.req]}
    BY <2>1
  <2>3. Send(ls) /\ identity' = identity /\ tracer' = [tracer EXCEPT ![x] = IdleTracer]
    BY <1>6, <2>2 DEF TracerEmit, Finish
  <2>4. \A l \in ls : l.kind = "arrived" => l.req \in identity
    BY <1>0, <1>6, <2>2 DEF TracerEmit
  <2>5. /\ \A l \in sent' : l.kind = "arrived" => l.req \in identity'
        /\ \A m \in mail' : m.kind = "arrived" => m.req \in identity'
    BY <2>3, <2>4, SendAnnounces
  <2> QED BY <1>a, <1>i, <2>3, <2>5
<1>7. ASSUME TracerCrash(x) PROVE Announced'
  <2>1. /\ tracer[x].pc # "idle" /\ sent' = sent /\ identity' = identity
        /\ tracer' = [tracer EXCEPT ![x] = IdleTracer]
    BY <1>7 DEF TracerCrash, Retry, Finish
  <2>2. PICK m : m = [tracer[x].msg EXCEPT !.tries = @ + 1]  OBVIOUS
  <2>3. m.kind = "trail"  BY <1>0, <2>1, <2>2 DEF Messages
  <2>4. mail' \subseteq mail \union {m}  BY <1>7, <2>2 DEF TracerCrash, Retry
  <2>5. /\ \A l \in sent' : l.kind = "arrived" => l.req \in identity'
        /\ \A n \in mail' : n.kind = "arrived" => n.req \in identity'
    BY <2>1, <2>3, <2>4 DEF Announced
  <2> QED BY <1>a, <1>i, <2>1, <2>5
<1>8. ~ TracerLookFails(x)  BY Calm DEF TracerLookFails
<1> QED BY <1>1, <1>3, <1>4, <1>5, <1>6, <1>7, <1>8 DEF TracerRuns, TracerFails

(* So does whoever drains by hand; and a redelivery repeats what was sent. *)
LEMMA SurroundingsAnnounce ==
  ASSUME TypeInv, Undisturbed, Announced, Surroundings
  PROVE  Announced'
<1> USE DEF post, join
<1>a. ASSUME UNCHANGED <<identity, tracer>>,
             \A l \in sent' : l.kind = "arrived" => l.req \in identity',
             \A m \in mail' : m.kind = "arrived" => m.req \in identity'
      PROVE  Announced'
  BY <1>a DEF Announced
<1>1. ASSUME NEW r \in Requests, Invoke(r) PROVE Announced'
  <2>1. PICK ls \in SUBSET Letters : Send(ls) /\ \A l \in ls : l.kind # "arrived"
    BY <1>1 DEF Invoke
  <2>2. UNCHANGED <<identity, tracer>>  BY <1>1 DEF Invoke
  <2> QED BY <1>a, <2>1, <2>2, SendAnnounces
<1>2. ASSUME NEW r \in Requests, DrainScript(r) PROVE Announced'
  <2>1. {[kind |-> "arrived", req |-> r]} \in SUBSET Letters  BY DEF Letters, Kinds
  <2>2. PICK ls \in SUBSET Letters : ls = {[kind |-> "arrived", req |-> r]}  BY <2>1
  <2>3. Send(ls) /\ UNCHANGED <<identity, tracer>> /\ r \in identity
    BY <1>2, <2>2 DEF DrainScript
  <2>4. \A l \in ls : l.kind = "arrived" => l.req \in identity  BY <2>2, <2>3
  <2> QED BY <1>a, <2>3, <2>4, SendAnnounces
<1>3. ASSUME NEW l \in sent, Redeliver(l) PROVE Announced'
  <2>1. Fresh(l).kind = l.kind /\ Fresh(l).req = l.req  BY DEF Fresh
  <2>2. sent' = sent /\ identity' = identity /\ tracer' = tracer /\ mail' = mail \union {Fresh(l)}
    BY <1>3 DEF Redeliver
  <2> QED BY <2>1, <2>2 DEF Announced
<1>4. ASSUME NEW k \in Keys, NEW b \in Metas, AdminBudget(k, b) PROVE Announced'
  BY <1>4 DEF AdminBudget, Announced
<1>5. ASSUME NEW k \in Keys, CachesExpire(k) PROVE Announced'
  BY <1>5 DEF CachesExpire, Announced
<1>6. /\ \A k \in Keys : ~ BudgetReadFails(k)
      /\ \A r \in Requests : ~ ExpireIdentity(r) /\ ~ ExpirePending(r)
  BY Calm DEF BudgetReadFails, ExpireIdentity, ExpirePending
<1> QED BY <1>1, <1>2, <1>3, <1>4, <1>5, <1>6 DEF Surroundings

(* An undisturbed step leaves each line of a billed request billed or announced. *)
LEMMA NextAnnounced ==
  ASSUME Undisturbed, IInv, Completes, [Next]_vars
  PROVE  Announced'
<1>0. TypeInv /\ Announced  BY DEF IInv, Completes
<1>1. CASE UNCHANGED vars  BY <1>0, <1>1 DEF vars, post, join, Announced
<1>2. ASSUME NEW w \in Meters, MeterRuns(w) \/ MeterFails(w) PROVE Announced'
  <2>1. UNCHANGED tracer  BY <1>2, MeterLeavesTracer
  <2>2. PICK s \in MeterStates : Moves(w, s)  BY <1>0, <1>2, MeterFacts
  <2>3. WorkIn(meter[w], identity, pending, processed)  BY DEF Completes
  <2> QED BY <1>0, <2>1, <2>2, <2>3, MeterAnnounces
<1>3. ASSUME NEW x \in Tracers, TracerRuns(x) \/ TracerFails(x) PROVE Announced'
  BY <1>0, <1>3, TracerAnnounces
<1>4. CASE Surroundings  BY <1>0, <1>4, SurroundingsAnnounce
<1> QED BY <1>1, <1>2, <1>3, <1>4 DEF Next

(* A request that gets on the bill by the meter's step was accounted for   *)
(* before it.                                                              *)
LEMMA FirstBilling ==
  ASSUME IInv, Completes, NEW w \in Meters, NEW s \in MeterStates, Moves(w, s),
         NEW r \in Requests, BilledIn(r, processed')
  PROVE  Knows(r, identity) /\ Accounted(r, mail, dlq, pending, processed, meter)
<1>1. CASE BilledIn(r, processed)  BY <1>1 DEF Completes
<1>2. CASE ~ BilledIn(r, processed)
  <2>1. r = Req(w) /\ meter[w].pc = "commit"
    BY <1>2 DEF BilledIn, Moves, Grows
  <2>2. /\ Knows(r, identity)
        /\ meter[w].msg.kind = "arrived" => r \in pending \/ AllIn(r, processed)
    BY <2>1 DEF Completes, WorkIn, Req
  <2>3. meter[w].msg.kind \in {"log", "arrived"}
    BY <2>1 DEF IInv, TypeInv, Handling, AtWork
  <2>4. CASE meter[w].msg.kind = "log"
    BY <2>1, <2>2, <2>4 DEF Accounted, Underway, CarriesLog, Req
  <2>5. CASE meter[w].msg.kind = "arrived"
    BY <2>1, <2>2, <2>5 DEF Accounted, Underway, CarriesArrived, Req
  <2> QED BY <2>3, <2>4, <2>5
<1> QED BY <1>1, <1>2

(* A step of a meter leaves each line of a billed request billed or still to be
   billed by somebody. *)
LEMMA MeterCompletes ==
  ASSUME LensesFromTrail, IInv, Completes, NEW w \in Meters, NEW s \in MeterStates,
         Moves(w, s), Announced'
  PROVE  Completes'
<1>0. /\ meter \in [Meters -> MeterStates] /\ TypeInv /\ Announced
      /\ WorkIn(meter[w], identity, pending, processed)
      /\ identity' = identity /\ Works(w, s)
      /\ \A row \in Rows : processed[row] \subseteq processed'[row]
  BY DEF IInv, TypeInv, TypeOK, Completes, Moves, Grows
<1>1. \A v \in Meters : meter'[v] = IF v = w THEN s ELSE meter[v]  BY <1>0 DEF Moves
<1>2. \A r \in pending : r \in pending' \/ AllIn(r, processed')
  <2> SUFFICES ASSUME NEW r \in pending, r \notin pending' PROVE AllIn(r, processed')
    OBVIOUS
  <2>1. r = Req(w) /\ Drops(w, s)  BY <1>0, Parked
  <2>2. AllIn(r, processed)  BY <1>0, <2>1 DEF Drops, WorkIn, Req
  <2> QED BY <1>0, <2>2, LinesStay
<1>3. ASSUME NEW v \in Meters PROVE WorkIn(meter'[v], identity', pending', processed')
  <2>1. CASE v = w
    <3>1. WorkIn(s, identity', pending', processed')  BY <1>0, WorkMoves
    <3> QED BY <1>1, <2>1, <3>1
  <2>2. CASE v # w
    <3>1. WorkIn(meter[v], identity, pending, processed)  BY DEF Completes
    <3>2. identity \subseteq identity'  BY <1>0
    <3>3. WorkIn(meter[v], identity', pending', processed')
      BY <1>0, <1>2, <3>1, <3>2, WorkStays
    <3> QED BY <1>1, <2>2, <3>3
  <2> QED BY <2>1, <2>2
<1>4. ASSUME NEW r \in Requests, BilledIn(r, processed')
      PROVE  Knows(r, identity') /\ Accounted(r, mail', dlq', pending', processed', meter')
  <2>1. Knows(r, identity) /\ Accounted(r, mail, dlq, pending, processed, meter)
    BY <1>4, FirstBilling
  <2>2. Accounted(r, mail', dlq', pending', processed', meter')
    BY <1>0, <2>1, AccountMoves
  <2> QED BY <1>0, <2>1, <2>2
<1> QED BY <1>3, <1>4 DEF Completes

(* So does a step around the meters. *)
LEMMA AroundCompletes ==
  ASSUME Completes, Around, Announced'
  PROVE  Completes'
<1>0. /\ meter' = meter /\ processed' = processed /\ pending' = pending
      /\ identity \subseteq identity' /\ dlq \subseteq dlq'
  BY DEF Around
<1>1. ASSUME NEW v \in Meters PROVE WorkIn(meter'[v], identity', pending', processed')
  <2>1. WorkIn(meter[v], identity, pending, processed)  BY DEF Completes
  <2> QED BY <1>0, <2>1 DEF WorkIn, Knows
<1>2. ASSUME NEW r \in Requests, BilledIn(r, processed')
      PROVE  Knows(r, identity') /\ Accounted(r, mail', dlq', pending', processed', meter')
  <2>1. Knows(r, identity) /\ Accounted(r, mail, dlq, pending, processed, meter)
    BY <1>0, <1>2 DEF Completes
  <2>2. Mailed("log", r, mail) => Mailed("log", r, mail')  BY DEF Around, Mailed
  <2>3. Mailed("arrived", r, mail) => Mailed("arrived", r, mail')  BY DEF Around, Mailed
  <2>4. Dead(r, dlq) => Dead(r, dlq')  BY <1>0 DEF Dead
  <2> QED BY <1>0, <2>1, <2>2, <2>3, <2>4 DEF Knows, Accounted, Underway
<1> QED BY <1>1, <1>2 DEF Completes

(* At first no request is billed. *)
LEMMA InitCompletes == Init => Completes
<1> SUFFICES ASSUME Init PROVE Completes  OBVIOUS
<1>1. Announced  BY DEF Init, Announced, IdleTracer
<1>2. \A w \in Meters : WorkIn(meter[w], identity, pending, processed)
  BY DEF Init, WorkIn, IdleMeter
<1>3. \A r \in Requests : ~ BilledIn(r, processed)  BY DEF Init, BilledIn
<1> QED BY <1>1, <1>2, <1>3 DEF Completes

(* Every undisturbed step leaves each line of a billed request billed or still to
   be billed. *)
LEMMA NextCompletes ==
  Undisturbed /\ LensesFromTrail =>
    (IInv /\ Tracing /\ Completes /\ [Next]_vars => Completes')
<1> SUFFICES ASSUME Undisturbed, LensesFromTrail, IInv, Tracing, Completes, [Next]_vars
             PROVE  Completes'
  OBVIOUS
<1>1. Announced'  BY NextAnnounced
<1> QED BY <1>1, StepShape, MeterCompletes, AroundCompletes

(* Without faults and expiries, and with the lenses known from CloudTrail  *)
(* alone, a request that is on the bill when everything has settled is on  *)
(* it with every line it has: a retry completes what a crash cut short.    *)
THEOREM EveryLineBilled ==
  Undisturbed /\ LensesFromTrail => (Spec => []AllLinesBilled)
<1> SUFFICES ASSUME Undisturbed, LensesFromTrail PROVE Spec => []AllLinesBilled  OBVIOUS
<1>1. Completes => AllLinesBilled
  <2> SUFFICES ASSUME Completes, Settled, NEW r \in Requests, Billed(r), ~ InDlq(r)
               PROVE  \A l \in LinesOf(r, TRUE) :
                        BilledOn(r, IF l \in LensLines THEN "model" ELSE l,
                                 IF l \in LensLines THEN {LensOf[l][r]} ELSE Principals)
    BY DEF AllLinesBilled
  <2>1. Accounted(r, mail, dlq, pending, processed, meter)  BY BilledIs DEF Completes
  <2>2. ~ Dead(r, dlq)  BY DEF Dead, InDlq
  <2>3. ~ Underway(r, mail, pending, meter)
    BY DEF Settled, Underway, Mailed, CarriesLog, CarriesArrived
  <2>4. AllIn(r, processed)  BY <2>1, <2>2, <2>3 DEF Accounted
  <2> QED BY <2>4 DEF AllIn, LineIn, BilledOn
<1>2. IInv /\ Tracing /\ Completes /\ [Next]_vars => Completes'  BY NextCompletes
<1>3. IInv /\ Kept /\ Tracing /\ [Next]_vars => Kept' /\ Tracing'  BY NextKept
<1> QED BY <1>1, <1>2, <1>3, Inductive, InitKept, InitCompletes, PTL DEF Spec

(***************************************************************************)
(* The rate bucket.                                                        *)
(***************************************************************************)
(* Without edits a container believes what the table says, or that there   *)
(* is no budget.                                                           *)
Absent == [window |-> DefaultWindow, rated |-> FALSE]
Believing ==
  \A k \in Keys : budget[k] = StartBudgets[k] /\ cached[k] \subseteq {StartBudgets[k], Absent}

(* Who is about to count a request of p has billed it to the row of p's    *)
(* budget, and every count before was for another request there.           *)
Counting(p, ms) == {v \in Meters : ms[v].pc = "count" /\ ms[v].owner = p}
RatedRow(p)     == RowOf(<<p, "model">>, StartBudgets[<<p, "model">>].window)
InBucket(p, count, ms, table) ==
  count + Cardinality(Counting(p, ms)) <= Cardinality(table[RatedRow(p)])
Counted == \A p \in Principals : InBucket(p, bucket[p], meter, processed)

(* The meters about to add a request to a bucket are finitely many. *)
LEMMA CountingFinite ==
  ASSUME NEW p, NEW ms
  PROVE  IsFiniteSet(Counting(p, ms)) /\ Cardinality(Counting(p, ms)) \in Nat
<1>1. Counting(p, ms) \subseteq Meters  BY DEF Counting
<1>2. IsFiniteSet(Counting(p, ms))  BY <1>1, FS_Subset, BoundsAssumption
<1> QED BY <1>2, FS_CardinalityType

(* The row that a rate limit counts is a row, with finitely many requests. *)
LEMMA RatedRowIn ==
  ASSUME TypeInv, NEW p \in Principals
  PROVE  /\ RatedRow(p) \in Rows
         /\ IsFiniteSet(processed[RatedRow(p)])
         /\ Cardinality(processed[RatedRow(p)]) \in Nat
         /\ bucket[p] \in Nat
<1>1. <<p, "model">> \in Keys  BY DEF Keys, Owners, Targets
<1>2. StartBudgets[<<p, "model">>].window \in Windows
  BY <1>1, BudgetsAssumption DEF Metas
<1>3. RatedRow(p) \in Rows
  BY <1>2 DEF RatedRow, RowOf, Rows, Owners, Targets
<1>4. processed[RatedRow(p)] \subseteq Requests /\ bucket[p] \in Nat
  BY <1>3 DEF TypeInv, TypeOK, Owners
<1>5. IsFiniteSet(processed[RatedRow(p)])  BY <1>4, RequestsAssumption, FS_Subset
<1> QED BY <1>3, <1>4, <1>5, FS_CardinalityType

(* Fewer about to count, and no count: the bound holds on.                 *)
LEMMA FewerCount ==
  ASSUME TypeInv, NEW p \in Principals, NEW ms, NEW table,
         Counting(p, ms) \subseteq Counting(p, meter),
         InBucket(p, bucket[p], meter, processed),
         IsFiniteSet(table[RatedRow(p)]), processed[RatedRow(p)] \subseteq table[RatedRow(p)]
  PROVE  InBucket(p, bucket[p], ms, table)
<1>1. Cardinality(Counting(p, ms)) <= Cardinality(Counting(p, meter))
  BY CountingFinite, FS_Subset
<1>2. Cardinality(processed[RatedRow(p)]) <= Cardinality(table[RatedRow(p)])
      /\ Cardinality(table[RatedRow(p)]) \in Nat
  BY FS_Subset, FS_CardinalityType
<1> QED BY <1>1, <1>2, CountingFinite, RatedRowIn DEF InBucket

(* No count is begun and none is made.                                     *)
LEMMA NoCounting ==
  ASSUME TypeInv, TypeInv', Counted, bucket' = bucket, NEW w \in Meters,
         \A v \in Meters : meter'[v] = meter[v] \/ (v = w /\ meter'[v].pc # "count"),
         \A row \in Rows : processed[row] \subseteq processed'[row]
  PROVE  Counted'
<1> SUFFICES ASSUME NEW p \in Principals PROVE InBucket(p, bucket'[p], meter', processed')
  BY DEF Counted
<1>1. Counting(p, meter') \subseteq Counting(p, meter)  BY DEF Counting
<1>2. RatedRow(p) \in Rows  BY RatedRowIn
<1>3. processed'[RatedRow(p)] \subseteq Requests  BY <1>2 DEF TypeInv, TypeOK
<1>4. IsFiniteSet(processed'[RatedRow(p)])  BY <1>3, RequestsAssumption, FS_Subset
<1>5. InBucket(p, bucket[p], meter, processed)  BY DEF Counted
<1> QED BY <1>1, <1>2, <1>4, <1>5, FewerCount

(* Only the principal's model budget starts a count.                       *)
LEMMA RatedLine ==
  ASSUME RatedByModel, Believing, TypeInv, NEW w \in Meters, meter[w].pc = "commit",
         NEW b \in Believed(LineKey(w)), b.rated, Line(w) \notin LensLines
  PROVE  RowOf(LineKey(w), b.window) = RatedRow(meter[w].owner)
<1>1. /\ meter[w].owner \in Principals
      /\ Line(w) \in Lines /\ LineKey(w) \in Keys
  <2>1. Line(w) \in LinesOf(Req(w), TRUE) /\ LineKey(w) \in Keys  BY Committing
  <2>2. Line(w) \in Lines  BY <2>1 DEF LinesOf
  <2> QED BY <2>1, <2>2 DEF TypeInv, Handling, AtWork
<1>2. LineKey(w) = <<meter[w].owner, Line(w)>> /\ Line(w) \in {"model", "profile"}
  BY <1>1 DEF LineKey, KeyOf, Lines
<1>3. b = StartBudgets[LineKey(w)]  BY <1>1 DEF Believing, Believed, Absent
<1>4. Line(w) = "model"  BY <1>1, <1>2, <1>3 DEF RatedByModel
<1> QED BY <1>2, <1>3, <1>4 DEF RatedRow

(* A charge that will be counted.                                          *)
LEMMA ChargeCounts ==
  ASSUME RatedByModel, Believing, Counted, IInv, TypeInv', NEW w \in Meters, MeterCharge(w)
  PROVE  Counted'
<1>0. TypeInv /\ meter[w].pc = "commit" /\ bucket' = bucket
      /\ meter \in [Meters -> MeterStates]
  BY DEF IInv, TypeInv, TypeOK, MeterCharge
<1>1. PICK b \in Believed(LineKey(w)) :
        LET row == RowOf(LineKey(w), b.window) IN
        /\ Req(w) \notin processed[row]
        /\ processed' = [processed EXCEPT ![row] = @ \union {Req(w)}]
        /\ meter' = [meter EXCEPT ![w] =
             IF b.rated /\ Line(w) \notin LensLines
             THEN [@ EXCEPT !.pc = "count", !.todo = Rest(w)]
             ELSE Proceed(w, Rest(w))]
  BY DEF MeterCharge
<1>2. PICK row \in Rows : row = RowOf(LineKey(w), b.window)  BY <1>0, Committing
<1>3. /\ Req(w) \notin processed[row]
      /\ \A q \in Rows : processed'[q] = IF q = row THEN processed[q] \union {Req(w)}
                                                    ELSE processed[q]
  BY <1>0, <1>1, <1>2 DEF TypeInv, TypeOK
<1>4. CASE ~ (b.rated /\ Line(w) \notin LensLines)
  <2>1. Proceed(w, Rest(w)).pc # "count"
    BY <1>0 DEF Proceed, Done, IdleMeter, MeterStates
  <2>2. \A v \in Meters : meter'[v] = meter[v] \/ (v = w /\ meter'[v].pc # "count")
    BY <1>0, <1>1, <1>4, <2>1
  <2> QED BY <1>0, <1>3, <2>2, NoCounting
<1>5. CASE b.rated /\ Line(w) \notin LensLines
  <2>1. PICK s : s = [meter[w] EXCEPT !.pc = "count", !.todo = Rest(w)]  OBVIOUS
  <2>2. s.pc = "count" /\ s.owner = meter[w].owner  BY <1>0, <2>1 DEF MeterStates
  <2>3. \A v \in Meters : meter'[v] = IF v = w THEN s ELSE meter[v]
    BY <1>0, <1>1, <1>5, <2>1
  <2>4. row = RatedRow(meter[w].owner)  BY <1>0, <1>2, <1>5, RatedLine
  <2> SUFFICES ASSUME NEW p \in Principals PROVE InBucket(p, bucket'[p], meter', processed')
    BY DEF Counted
  <2>5. InBucket(p, bucket[p], meter, processed) /\ RatedRow(p) \in Rows
    BY <1>0, RatedRowIn DEF Counted
  <2>6. CASE p # meter[w].owner
    <3>1. Counting(p, meter') \subseteq Counting(p, meter)  BY <2>2, <2>3, <2>6 DEF Counting
    <3>2. processed'[RatedRow(p)] \subseteq Requests  BY <2>5 DEF TypeInv, TypeOK
    <3>3. IsFiniteSet(processed'[RatedRow(p)])  BY <3>2, RequestsAssumption, FS_Subset
    <3>4. processed[RatedRow(p)] \subseteq processed'[RatedRow(p)]  BY <1>3, <2>5
    <3> QED BY <1>0, <2>5, <3>1, <3>3, <3>4, FewerCount
  <2>7. CASE p = meter[w].owner
    <3>1. Counting(p, meter') = Counting(p, meter) \union {w} /\ w \notin Counting(p, meter)
      BY <1>0, <2>2, <2>3, <2>7 DEF Counting
    <3>2. Cardinality(Counting(p, meter')) = Cardinality(Counting(p, meter)) + 1
      BY <3>1, CountingFinite, FS_AddElement
    <3>3. processed'[RatedRow(p)] = processed[RatedRow(p)] \union {Req(w)}
          /\ Req(w) \notin processed[RatedRow(p)]
      BY <1>3, <2>4, <2>7
    <3>4. Cardinality(processed'[RatedRow(p)]) = Cardinality(processed[RatedRow(p)]) + 1
      BY ZenonT(60), <1>0, <3>3, RatedRowIn, FS_AddElement
    <3> QED BY <1>0, <2>5, <3>2, <3>4, CountingFinite, RatedRowIn DEF InBucket
  <2> QED BY <2>6, <2>7
<1> QED BY <1>4, <1>5

(* The count itself.                                                       *)
LEMMA CountCounts ==
  ASSUME Counted, IInv, NEW w \in Meters, MeterCount(w)
  PROVE  Counted'
<1>0. /\ TypeInv /\ meter[w].pc = "count" /\ processed' = processed
      /\ meter \in [Meters -> MeterStates] /\ bucket \in [Owners -> Nat]
      /\ meter[w].owner \in Principals
  BY DEF IInv, TypeInv, TypeOK, Handling, AtWork, MeterCount, ledger
<1>1. PICK s : s = Proceed(w, meter[w].todo)  OBVIOUS
<1>2. s.pc # "count"  BY <1>0, <1>1 DEF Proceed, Done, IdleMeter, MeterStates
<1>3. \A v \in Meters : meter'[v] = IF v = w THEN s ELSE meter[v]
  BY <1>0, <1>1 DEF MeterCount
<1>4. \A o \in Owners : bucket'[o] = IF o = meter[w].owner THEN bucket[o] + 1 ELSE bucket[o]
  BY <1>0 DEF MeterCount
<1> SUFFICES ASSUME NEW p \in Principals PROVE InBucket(p, bucket'[p], meter', processed')
  BY DEF Counted
<1>5. InBucket(p, bucket[p], meter, processed)  BY DEF Counted
<1>6. CASE p # meter[w].owner
  <2>1. Counting(p, meter') = Counting(p, meter)  BY <1>0, <1>2, <1>3, <1>6 DEF Counting
  <2>2. bucket'[p] = bucket[p]  BY <1>4, <1>6 DEF Owners
  <2> QED BY <1>0, <1>5, <2>1, <2>2 DEF InBucket
<1>7. CASE p = meter[w].owner
  <2>1. Counting(p, meter') = Counting(p, meter) \ {w} /\ w \in Counting(p, meter)
    BY <1>0, <1>2, <1>3, <1>7 DEF Counting
  <2>2. Cardinality(Counting(p, meter')) = Cardinality(Counting(p, meter)) - 1
    BY <2>1, CountingFinite, FS_RemoveElement
  <2>3. bucket'[p] = bucket[p] + 1  BY <1>4, <1>7 DEF Owners
  <2> QED BY <1>0, <1>5, <2>2, <2>3, CountingFinite, RatedRowIn DEF InBucket
<1> QED BY <1>6, <1>7

(* A step of a meter leaves the bucket with no more than the row lists and its
   meters are about to add. *)
LEMMA MeterCounts ==
  ASSUME RatedByModel, Believing, Counted, IInv, TypeInv', NEW w \in Meters,
         MeterRuns(w) \/ MeterFails(w)
  PROVE  Counted' /\ Believing'
<1> USE DEF ledger, budgets
<1>b. Believing'
  <2>1. budget' = budget /\ cached' = cached
    BY DEF MeterRuns, MeterFails, MeterSkip, MeterTake, MeterIdentify, MeterPark, MeterFetch,
       MeterLookup, MeterDelete, MeterCharge, MeterCharged, MeterRefused, MeterCount,
       MeterCountFails, MeterFault, MeterCrash
  <2> QED BY <2>1 DEF Believing
<1>0. TypeInv /\ meter \in [Meters -> MeterStates]  BY DEF IInv, TypeInv, TypeOK
<1>1. CASE MeterCharge(w)  BY <1>b, <1>1, ChargeCounts
<1>2. CASE MeterCount(w)   BY <1>b, <1>2, CountCounts
<1>a. ASSUME NEW s, s.pc # "count", meter' = [meter EXCEPT ![w] = s],
             UNCHANGED <<processed, bucket>>
      PROVE  Counted'
  <2>1. \A v \in Meters : meter'[v] = meter[v] \/ (v = w /\ meter'[v].pc # "count")
    BY <1>0, <1>a
  <2> QED BY <1>0, <1>a, <2>1, NoCounting
<1>d. /\ IdleMeter.pc # "count" /\ Done(w).pc # "count"
      /\ \A rest : Proceed(w, rest).pc # "count"
  BY <1>0 DEF IdleMeter, Done, Proceed, MeterStates
<1>3. ASSUME NEW m \in mail, MeterSkip(w, m) PROVE Counted'
  <2>1. UNCHANGED <<meter, processed, bucket>>  BY <1>3 DEF MeterSkip
  <2> QED BY <1>0, <2>1, NoCounting
<1>4. ASSUME NEW m \in mail, MeterTake(w, m) PROVE Counted'
  <2>1. PICK s : s = [IdleMeter EXCEPT !.pc = IF m.kind = "log" THEN "identify" ELSE "fetch",
                                       !.msg = m]
    OBVIOUS
  <2>2. s.pc # "count"  BY <2>1 DEF IdleMeter
  <2>3. meter' = [meter EXCEPT ![w] = s] /\ UNCHANGED <<processed, bucket>>
    BY <1>4, <2>1 DEF MeterTake
  <2> QED BY <1>a, <2>2, <2>3
<1>e. ASSUME NEW pc \in {"park", "lookup"}, UNCHANGED <<processed, bucket>>,
             meter' = [meter EXCEPT ![w] = [meter[w] EXCEPT !.pc = pc]]
      PROVE  Counted'
  <2>1. PICK s : s = [meter[w] EXCEPT !.pc = pc]  OBVIOUS
  <2>2. s.pc # "count" /\ meter' = [meter EXCEPT ![w] = s]
    BY <1>0, <1>e, <2>1 DEF MeterStates
  <2> QED BY <1>a, <1>e, <2>2
<1>f. ASSUME NEW o, NEW lensed, Bill(w, o, lensed), UNCHANGED <<processed, bucket>>
      PROVE  Counted'
  <2>1. PICK s : s = [meter[w] EXCEPT !.pc = "commit", !.owner = o,
                                      !.todo = LinesOf(Req(w), lensed)]
    OBVIOUS
  <2>2. s.pc # "count" /\ meter' = [meter EXCEPT ![w] = s]
    BY <1>0, <1>f, <2>1 DEF MeterStates, Bill
  <2> QED BY <1>a, <1>f, <2>2
<1>5. ASSUME MeterIdentify(w) PROVE Counted'
  <2>1. CASE meter' = [meter EXCEPT ![w].pc = "park"]
    <3>1. meter' = [meter EXCEPT ![w] = [meter[w] EXCEPT !.pc = "park"]]
      BY <1>0, <2>1
    <3> QED BY <1>5, <1>e, <3>1 DEF MeterIdentify
  <2> QED BY <1>5, <1>f, <2>1 DEF MeterIdentify
<1>6. ASSUME MeterFetch(w) PROVE Counted'
  <2>1. \/ meter' = [meter EXCEPT ![w] = [meter[w] EXCEPT !.pc = "lookup"]]
        \/ meter' = [meter EXCEPT ![w] = IdleMeter]
    BY <1>0, <1>6 DEF MeterFetch
  <2> QED BY <1>6, <1>a, <1>d, <1>e, <2>1 DEF MeterFetch
<1>7. ASSUME MeterLookup(w) PROVE Counted'
  BY <1>7, <1>f DEF MeterLookup
<1>8. ASSUME \/ MeterPark(w) \/ MeterDelete(w) \/ MeterCharged(w) \/ MeterRefused(w)
             \/ MeterCountFails(w) \/ MeterFault(w) \/ MeterCrash(w)
      PROVE  Counted'
  <2>1. PICK s \in {IdleMeter, Done(w), Proceed(w, Rest(w)), Proceed(w, meter[w].todo)} :
          meter' = [meter EXCEPT ![w] = s]
    BY <1>8 DEF MeterPark, MeterDelete, MeterCharged, MeterRefused, MeterCountFails,
                MeterFault, MeterCrash
  <2>2. UNCHANGED <<processed, bucket>>
    BY <1>8 DEF MeterPark, MeterDelete, MeterCharged, MeterRefused, MeterCountFails,
                MeterFault, MeterCrash
  <2> QED BY <1>a, <1>d, <2>1, <2>2
<1> QED BY <1>b, <1>1, <1>2, <1>3, <1>4, <1>5, <1>6, <1>7, <1>8 DEF MeterRuns, MeterFails

(* So does every step. *)
LEMMA NextCounted ==
  RatedByModel => (IInv /\ Believing /\ Counted /\ [Next]_vars => Believing' /\ Counted')
<1> SUFFICES ASSUME RatedByModel, IInv, Believing, Counted, [Next]_vars
             PROVE  Believing' /\ Counted'
  OBVIOUS
<1>0. TypeInv /\ TypeInv'  BY NextTyped DEF IInv
<1>c. UNCHANGED <<processed, meter, bucket>> => Counted'
  <2> SUFFICES ASSUME UNCHANGED <<processed, meter, bucket>> PROVE Counted'  OBVIOUS
  <2> QED BY DEF Counted
<1>1. CASE UNCHANGED vars
  BY <1>c, <1>1 DEF vars, ledger, budgets, Believing
<1>2. ASSUME NEW w \in Meters, MeterRuns(w) \/ MeterFails(w) PROVE Believing' /\ Counted'
  BY <1>0, <1>2, MeterCounts
<1>3. ASSUME NEW x \in Tracers, TracerRuns(x) \/ TracerFails(x) PROVE Believing' /\ Counted'
  <2>1. UNCHANGED <<processed, meter, bucket, budget, cached>>
    BY <1>3 DEF TracerRuns, TracerFails, TracerTake, TracerNote, TracerSee, TracerLook,
                TracerLookFails, TracerEmit, TracerCrash, ledger, budgets
  <2> QED BY <1>c, <2>1 DEF Believing
<1>4. CASE Surroundings
  <2> USE DEF ledger, budgets
  <2>1. UNCHANGED <<processed, meter, bucket>>
    BY <1>4 DEF Surroundings, Invoke, DrainScript, ExpireIdentity, ExpirePending, Redeliver,
       AdminBudget, CachesExpire, BudgetReadFails
  <2>2. ~ Use("admin")
    <3>1. used["admin"] \in Nat /\ MaxUse["admin"] = 0
      BY <1>0 DEF TypeInv, TypeOK, Counts, RatedByModel
    <3> QED BY <3>1 DEF Use
  <2>3. ASSUME NEW k \in Keys, CachesExpire(k) \/ BudgetReadFails(k) PROVE Believing'
    <3>1. /\ budget' = budget /\ cached \in [Keys -> SUBSET Metas]
          /\ \/ cached' = [cached EXCEPT ![k] = {}]
             \/ cached' = [cached EXCEPT ![k] = @ \union {Absent}]
      BY <1>0, <2>3 DEF CachesExpire, BudgetReadFails, Absent, TypeInv, TypeOK
    <3>2. \A q \in Keys : cached'[q] \subseteq cached[q] \union {Absent}  BY <3>1
    <3> QED BY <3>1, <3>2 DEF Believing
  <2>4. ASSUME UNCHANGED <<budget, cached>> PROVE Believing'  BY <2>4 DEF Believing
  <2>5. Believing'
    BY <1>4, <2>2, <2>3, <2>4 DEF Surroundings, Invoke, DrainScript, ExpireIdentity,
       ExpirePending, Redeliver, AdminBudget
  <2> QED BY <1>c, <2>1, <2>5
<1> QED BY <1>1, <1>2, <1>3, <1>4 DEF Next

(* At first the buckets are empty. *)
LEMMA InitCounted == Init => Believing /\ Counted
<1> SUFFICES ASSUME Init PROVE Believing /\ Counted  OBVIOUS
<1>1. Believing  BY DEF Init, Believing
<1>2. ASSUME NEW p \in Principals PROVE InBucket(p, bucket[p], meter, processed)
  <2>1. Counting(p, meter) = {}  BY DEF Init, Counting, IdleMeter
  <2>2. bucket[p] = 0  BY DEF Init, Owners
  <2>3. TypeInv  BY InitTyped
  <2> QED BY <2>1, <2>2, <2>3, RatedRowIn, FS_EmptySet DEF InBucket
<1> QED BY <1>1, <1>2 DEF Counted

(* Where nobody edits budgets and only model budgets limit a rate, the     *)
(* bucket of a principal never counts more requests than rows of his were  *)
(* billed, whatever fails, is retried or delivered twice.                  *)
THEOREM BucketBehind == RatedByModel => (Spec => []BucketNotAhead)
<1> SUFFICES ASSUME RatedByModel PROVE Spec => []BucketNotAhead  OBVIOUS
<1>1. IInv /\ Counted => BucketNotAhead
  <2> SUFFICES ASSUME IInv, Counted, NEW p \in Principals
               PROVE  bucket[p] <= Cardinality(UNION {processed[row] :
                                     row \in {q \in Rows : q.owner = p}})
    BY DEF BucketNotAhead
  <2> DEFINE U == UNION {processed[row] : row \in {q \in Rows : q.owner = p}}
  <2>0. TypeInv  BY DEF IInv
  <2>1. RatedRow(p) \in Rows /\ RatedRow(p).owner = p
    BY <2>0, RatedRowIn DEF RatedRow, RowOf
  <2>2. processed[RatedRow(p)] \subseteq U /\ U \subseteq Requests
    BY <2>0, <2>1 DEF TypeInv, TypeOK
  <2> HIDE DEF U
  <2>3. IsFiniteSet(U)  BY <2>2, RequestsAssumption, FS_Subset
  <2>4. Cardinality(processed[RatedRow(p)]) <= Cardinality(U) /\ Cardinality(U) \in Nat
    BY <2>2, <2>3, FS_Subset, FS_CardinalityType
  <2>5. bucket[p] <= Cardinality(processed[RatedRow(p)])
    BY <2>0, CountingFinite, RatedRowIn DEF Counted, InBucket
  <2>6. bucket[p] <= Cardinality(U)  BY <2>0, <2>4, <2>5, RatedRowIn
  <2> QED BY <2>6 DEF U
<1>2. IInv /\ Believing /\ Counted /\ [Next]_vars => Believing' /\ Counted'  BY NextCounted
<1> QED BY <1>1, <1>2, Inductive, InitCounted, PTL DEF Spec
================================================================================
