----------------------------- MODULE BoardProofs -----------------------------
(***************************************************************************)
(* What the threads of Fanctld amount to, for any number of headers,       *)
(* threads, calls and faults: every operation is over after boundedly many *)
(* steps of its own, and together they are the fan board of FanBoard.      *)
(***************************************************************************)
EXTENDS OperationProofs, FiniteSetTheorems

USE SysfsAssumption, ControllerAssumption, FanctldAssumption

-----------------------------------------------------------------------------
(* Where the steps of a thread lead.                                       *)

\* The operation of t ends, and no emission follows an emission.
Over(t) == th'[t] = Idle \/ (th'[t] = Emitting /\ th[t].op # "emit")

\* It goes on: it finds out what there is to do,
Prepares(t) ==
    \/ /\ th[t].pc = "load" /\ th'[t].pc = "read"
       /\ th'[t].unread = Fans
    \/ /\ th[t].pc = "read" /\ th'[t].pc = "enable"
       /\ \E f \in th[t].unread : th'[t].unread = th[t].unread \ {f}
    \/ /\ th[t].pc = "enable" /\ th'[t].pc \in {"read", "plan"}
       /\ th'[t].unread = th[t].unread
    \/ th[t].pc = "plan" /\ th'[t].pc \in {"save", "report"}

\* decides which headers to write,
Chooses(t) ==
    /\ th[t].pc = "plan" /\ th'[t].pc = "write"
    /\ th[t].op # "emit" /\ th'[t].todo \in SUBSET Fans

\* takes over the lowest of them,
Takes(t) ==
    /\ th[t].pc = "write" /\ th'[t].pc = "duty"
    /\ th'[t].todo = th[t].todo
    /\ HasEnable(th'[t].fan) /\ \A g \in th'[t].todo : th'[t].fan <= g

\* or is done with one.
Strikes(t) ==
    /\ th[t].pc \in {"write", "duty"} /\ th'[t].pc = "write"
    /\ th'[t].want = th[t].want
    /\ \E f \in th[t].todo : th'[t].todo = th[t].todo \ {f}

Proceeds(t) ==
    th'[t].op = th[t].op /\ (Prepares(t) \/ Chooses(t) \/ Takes(t) \/ Strikes(t))

LEMMA EndsOver ==
    ASSUME TypeOK, NEW t \in Threads, NEW ok \in BOOLEAN, Ends(t, ok)
    PROVE  Over(t)
  <1>1. Reports(t, ok) => th[t].op # "emit"
    BY DEF Reports
  <1>2. \A r : Goto(t, r) => th'[t] = r
    BY DEF Goto, TypeOK, ControllerTypeOK
  <1> QED  BY <1>1, <1>2 DEF Ends, Over

LEMMA ReadsProceed ==
    ASSUME TypeOK, NEW t \in Threads,
           LoadProfile(t) \/ ReadDuty(t) \/ ReadEnable(t)
    PROVE  Over(t) \/ (Proceeds(t) /\ Prepares(t))
  <1>1. th[t] \in Thread /\ \A r : Goto(t, r) => th'[t] = r
    BY DEF Goto, TypeOK, ControllerTypeOK
  <1>2. CASE LoadProfile(t)
    <2>1. CASE Goto(t, Reads(th[t].op, disk.fans))
      <3> DEFINE r == Reads(th[t].op, disk.fans)
      <3>1. r.op = th[t].op /\ r.pc = "read" /\ r.unread = Fans
        BY DEF Reads, Idle
      <3>2. th'[t] = r /\ th[t].pc = "load"
        BY <1>1, <1>2, <2>1 DEF LoadProfile, At
      <3> HIDE DEF r
      <3> QED  BY <3>1, <3>2 DEF Proceeds, Prepares
    <2> QED  BY <1>2, <2>1, EndsOver DEF LoadProfile
  <1>3. CASE ReadDuty(t)
    <2>0. PICK f \in th[t].unread : \E pwm \in {duty[f], 0} :
              Goto(t, [th[t] EXCEPT !.pc = "enable", !.fan = f, !.unread = @ \ {f},
                                    !.snap[f] = AfterDuty(pwm)])
      BY <1>3 DEF ReadDuty
    <2>1. PICK pwm \in {duty[f], 0} :
              Goto(t, [th[t] EXCEPT !.pc = "enable", !.fan = f, !.unread = @ \ {f},
                                    !.snap[f] = AfterDuty(pwm)])
      BY <2>0
    <2> DEFINE r == [th[t] EXCEPT !.pc = "enable", !.fan = f, !.unread = @ \ {f},
                                  !.snap[f] = AfterDuty(pwm)]
    <2>2. r.op = th[t].op /\ r.pc = "enable" /\ r.unread = th[t].unread \ {f}
      BY <1>1 DEF Thread
    <2>3. th'[t] = r /\ th[t].pc = "read"
      BY <1>1, <1>3, <2>1 DEF ReadDuty, At
    <2> HIDE DEF r
    <2> QED  BY <2>2, <2>3 DEF Proceeds, Prepares
  <1>4. CASE ReadEnable(t)
    <2> DEFINE g == th[t].fan
               after == IF th[t].unread = {} THEN "plan" ELSE "read"
    <2>1. PICK rest : Goto(t, [th[t] EXCEPT !.pc = after, !.fan = 0,
                                            !.snap[g].enable = rest.enable,
                                            !.snap[g].writable = rest.writable])
      BY <1>4 DEF ReadEnable
    <2> DEFINE r == [th[t] EXCEPT !.pc = after, !.fan = 0,
                                  !.snap[g].enable = rest.enable,
                                  !.snap[g].writable = rest.writable]
    <2>2. r.op = th[t].op /\ r.pc = after /\ r.unread = th[t].unread
      BY <1>1 DEF Thread
    <2>3. th'[t] = r /\ th[t].pc = "enable"
      BY <1>1, <1>4, <2>1 DEF ReadEnable, At
    <2> HIDE DEF r
    <2> QED  BY <2>2, <2>3 DEF Proceeds, Prepares
  <1> QED  BY <1>2, <1>3, <1>4

LEMMA PlansProceed ==
    ASSUME TypeOK, TypeOK', NEW t \in Threads,
           PlanMax(t) \/ PlanAuto(t) \/ PlanRestore(t) \/ PlanSave(t) \/ PlanEmit(t)
    PROVE  Over(t) \/ (Proceeds(t) /\ (Prepares(t) \/ Chooses(t)))
  <1>1. /\ th[t] \in Thread /\ Consistent(th'[t])
        /\ \A r : Goto(t, r) => th'[t] = r
    BY DEF Goto, TypeOK, ControllerTypeOK
  <1>2. CASE PlanMax(t) \/ PlanAuto(t) \/ PlanRestore(t)
    <2>1. ASSUME NEW want, NEW todo, Decides(t, Writes(th[t].op, want, todo)), th[t].op # "emit"
          PROVE  Proceeds(t) /\ Chooses(t)
      <3> DEFINE r == Writes(th[t].op, want, todo)
      <3>1. r.op = th[t].op /\ r.pc = "write"
        BY DEF Writes, Idle
      <3>2. th'[t] = r /\ th[t].pc = "plan"
        BY <1>1, <2>1 DEF Decides, At
      <3> HIDE DEF r
      <3>3. th'[t].todo \in SUBSET Fans
        BY <1>1, <3>1, <3>2 DEF Consistent
      <3> QED  BY <2>1, <3>1, <3>2, <3>3 DEF Proceeds, Prepares, Chooses
    <2>2. \/ Ends(t, FALSE)
          \/ th[t].op # "emit" /\ \E want, todo : Decides(t, Writes(th[t].op, want, todo))
      BY <1>2 DEF PlanMax, PlanAuto, PlanRestore
    <2> QED  BY <2>1, <2>2, EndsOver
  <1>3. CASE PlanSave(t) \/ PlanEmit(t)
    <2>1. PICK pc \in {"save", "report"} : Decides(t, [th[t] EXCEPT !.pc = pc])
      BY <1>3 DEF PlanSave, PlanEmit
    <2>2. th'[t].op = th[t].op /\ th'[t].pc = pc /\ th[t].pc = "plan"
      BY <1>1, <2>1 DEF Decides, At, Thread
    <2> QED  BY <2>2 DEF Proceeds, Prepares, Chooses
  <1> QED  BY <1>2, <1>3

\* The list of headers still to write.
LEMMA ListShrinks ==
    ASSUME TypeOK, NEW t \in Threads, NEW f \in th[t].todo, NEW r,
           th[t].pc \in {"write", "duty"}, Goto(t, r), r.pc = "write",
           r.op = th[t].op, r.want = th[t].want, r.todo = th[t].todo \ {f}
    PROVE  Proceeds(t) /\ Strikes(t)
  <1>1. th'[t] = r
    BY DEF Goto, TypeOK, ControllerTypeOK
  <1> QED  BY <1>1 DEF Proceeds, Strikes

LEMMA WriterAt ==
    ASSUME TypeOK, NEW t \in Threads, NEW f \in Fans, Upcoming(t, f) \/ DutyDue(t, f)
    PROVE  th[t].pc \in {"write", "duty"} /\ f \in th[t].todo
  BY DutyDueFacts DEF Upcoming, At, TypeOK

LEMMA WritesProceed ==
    ASSUME TypeOK, NEW t \in Threads,
           WriteManual(t) \/ WriteDuty(t) \/ WriteAuto(t)
    PROVE  Proceeds(t)
  <1>1. CASE WriteManual(t)
    <2>1. PICK f \in Fans :
              /\ Upcoming(t, f) /\ HasEnable(f)
              /\ Goto(t, [th[t] EXCEPT !.pc = "duty", !.fan = f])
      BY <1>1 DEF WriteManual
    <2>2. /\ th'[t].pc = "duty" /\ th'[t].op = th[t].op /\ th'[t].todo = th[t].todo
          /\ th'[t].fan = f
      BY <2>1, WriterFields
    <2> QED  BY <2>1, <2>2 DEF Proceeds, Takes, Upcoming, At
  <1>2. CASE WriteDuty(t) \/ WriteAuto(t)
    <2>1. PICK f \in Fans : (Upcoming(t, f) \/ DutyDue(t, f)) /\ Goto(t, Wrote(t, f))
      BY <1>2 DEF WriteDuty, WriteAuto
    <2>2. /\ th'[t].pc = "write" /\ th'[t].op = th[t].op /\ th'[t].want = th[t].want
          /\ th'[t].todo = th[t].todo \ {f}
      BY <2>1, WriterFields
    <2> QED  BY <2>1, <2>2, WriterAt DEF Proceeds, Strikes
  <1> QED  BY <1>1, <1>2

LEMMA PassesOver ==
    ASSUME TypeOK, NEW t \in Threads, Refuse(t) \/ WriteFails(t)
    PROVE  Over(t) \/ (Proceeds(t) /\ Strikes(t))
  <1>0. th[t] \in Thread
    BY DEF TypeOK, ControllerTypeOK
  <1>1. PICK f \in Fans :
            /\ Upcoming(t, f) \/ DutyDue(t, f)
            /\ \/ HeaderFails(t, f)
               \/ Upcoming(t, f) /\ Goto(t, [th[t] EXCEPT !.todo = @ \ {f}])
    BY DEF Refuse, WriteFails
  <1> DEFINE failed == [th[t] EXCEPT !.pc = "write", !.fan = 0,
                                     !.todo = @ \ {f}, !.failed = @ \cup {f}]
             passed == [th[t] EXCEPT !.todo = @ \ {f}]
  <1>2. /\ failed.pc = "write" /\ failed.op = th[t].op
        /\ failed.want = th[t].want /\ failed.todo = th[t].todo \ {f}
    BY <1>0 DEF Thread
  <1>3. /\ passed.pc = th[t].pc /\ passed.op = th[t].op
        /\ passed.want = th[t].want /\ passed.todo = th[t].todo \ {f}
    BY <1>0 DEF Thread
  <1>4. \/ Ends(t, FALSE) \/ Goto(t, failed)
        \/ th[t].pc = "write" /\ Goto(t, passed)
    BY <1>1 DEF HeaderFails, Upcoming, At
  <1> HIDE DEF failed, passed
  <1>5. th[t].pc \in {"write", "duty"} /\ f \in th[t].todo
    BY <1>1, WriterAt
  <1>6. CASE Goto(t, failed)
    BY <1>2, <1>5, <1>6, ListShrinks
  <1>7. CASE th[t].pc = "write" /\ Goto(t, passed)
    BY <1>3, <1>5, <1>7, ListShrinks
  <1> QED  BY <1>4, <1>6, <1>7, EndsOver

LEMMA StepProceeds ==
    ASSUME TypeOK, TypeOK', NEW t \in Threads, Step(t)
    PROVE  Over(t) \/ Proceeds(t)
  <1>1. CASE ReadStatusFails(t) \/ SaveProfile(t) \/ EmitFansChanged(t) \/ Finish(t)
    <2>1. \E ok \in BOOLEAN : Ends(t, ok)
      BY <1>1 DEF ReadStatusFails, SaveProfile, EmitFansChanged, Finish, Succeeded
    <2> QED  BY <2>1, EndsOver
  <1> QED  BY <1>1, ReadsProceed, PlansProceed, WritesProceed, PassesOver DEF Step

\* A thread that is in no operation takes no step, and no step moves another.
LEMMA StepAlone ==
    ASSUME TypeOK, NEW t \in Threads, Step(t)
    PROVE  ~At(t, "idle") /\ \A s \in Threads : s # t => th'[s] = th[s]
  <1>1. ~At(t, "idle")
    BY DEF Step, LoadProfile, ReadDuty, ReadEnable, ReadStatusFails, PlanMax, PlanAuto,
           PlanRestore, PlanSave, PlanEmit, SaveProfile, EmitFansChanged, WriteManual,
           WriteDuty, WriteAuto, WriteFails, Refuse, Finish, DutyDue, Decides, Upcoming,
           Finished, At
  <1> QED  BY <1>1, StepKeepsOp

-----------------------------------------------------------------------------
(* Counting them.                                                          *)

LEMMA Counts ==
    /\ Cardinality(Fans) \in Nat
    /\ \A S \in SUBSET Fans :
          /\ Cardinality(S) \in Nat /\ Cardinality(S) <= Cardinality(Fans)
          /\ \A f \in S : /\ Cardinality(S \ {f}) = Cardinality(S) - 1
                          /\ Cardinality(S) >= 1
  <1>1. IsFiniteSet(Fans) /\ Cardinality(Fans) \in Nat
    BY FS_CardinalityType
  <1>2. ASSUME NEW S \in SUBSET Fans
        PROVE  IsFiniteSet(S) /\ Cardinality(S) \in Nat /\ Cardinality(S) <= Cardinality(Fans)
    BY <1>1, FS_Subset, FS_CardinalityType
  <1>3. ASSUME NEW S \in SUBSET Fans, NEW f \in S
        PROVE  Cardinality(S \ {f}) = Cardinality(S) - 1 /\ Cardinality(S) >= 1
    <2>1. Cardinality(S \ {f}) = Cardinality(S) - 1
      BY <1>2, FS_RemoveElement
    <2>2. Cardinality(S \ {f}) \in Nat
      BY <1>2
    <2> QED  BY <1>2, <2>1, <2>2
  <1> QED  BY <1>1, <1>2, <1>3

Signalling(r) == IF r.op = "emit" THEN 0 ELSE 2 * Cardinality(Fans) + 2
Planning(r)   == IF r.op = "emit" THEN 2 ELSE 2 * Cardinality(Fans) + 2 + Signalling(r)

LEMMA StepsLeftAt ==
    ASSUME NEW r
    PROVE  /\ r.pc = "idle" => StepsLeft(r) = 0
           /\ r.pc = "load" => StepsLeft(r) = 2 * Cardinality(Fans) + Planning(r) + 1
           /\ r.pc = "read" => StepsLeft(r) = 2 * Cardinality(r.unread) + Planning(r)
           /\ r.pc = "enable" => StepsLeft(r) = 2 * Cardinality(r.unread) + Planning(r) + 1
           /\ r.pc = "plan" => StepsLeft(r) = Planning(r)
           /\ r.pc = "write" => StepsLeft(r) = 2 * Cardinality(r.todo) + Signalling(r) + 1
           /\ r.pc = "duty" => StepsLeft(r) = 2 * Cardinality(r.todo) + Signalling(r)
           /\ r.pc \in {"save", "report"} => StepsLeft(r) = Signalling(r) + 1
  BY DEF StepsLeft, Signalling, Planning

\* How many steps are left at most, and at least while an operation runs.
LEMMA StepsLeftBounds ==
    ASSUME TypeOK, NEW t \in Threads, ~At(t, "idle")
    PROVE  /\ StepsLeft(th[t]) \in 1..6 * Cardinality(Fans) + 5
           /\ th[t].op # "emit" => StepsLeft(th[t]) > 2 * Cardinality(Fans) + 2
  <1> DEFINE r == th[t]
  <1>1. r.pc \in PCs \ {"idle"} /\ r.unread \in SUBSET Fans /\ Consistent(r)
    BY ThreadFields DEF TypeOK, ControllerTypeOK, At
  <1>2. /\ Cardinality(Fans) \in Nat
        /\ Signalling(r) = IF r.op = "emit" THEN 0 ELSE 2 * Cardinality(Fans) + 2
        /\ Planning(r) = IF r.op = "emit" THEN 2 ELSE 4 * Cardinality(Fans) + 4
    BY Counts DEF Signalling, Planning
  <1>3. Cardinality(r.unread) \in Nat /\ Cardinality(r.unread) <= Cardinality(Fans)
    BY <1>1, Counts
  <1>4. r.pc \in {"write", "duty"} =>
            Cardinality(r.todo) \in Nat /\ Cardinality(r.todo) <= Cardinality(Fans)
    BY <1>1, Counts DEF Consistent
  <1>5. r.pc = "duty" => Cardinality(r.todo) >= 1
    BY <1>1, Counts DEF Consistent
  <1> SUFFICES /\ StepsLeft(r) \in 1..6 * Cardinality(Fans) + 5
               /\ r.op # "emit" => StepsLeft(r) > 2 * Cardinality(Fans) + 2
    OBVIOUS
  <1> HIDE DEF r
  <1>6. CASE r.pc \in {"load", "plan"}
    BY <1>2, <1>6, StepsLeftAt
  <1>7. CASE r.pc \in {"read", "enable"}
    <2>1. StepsLeft(r) \in {2 * Cardinality(r.unread) + Planning(r),
                           2 * Cardinality(r.unread) + Planning(r) + 1}
      BY <1>7, StepsLeftAt
    <2> QED  BY <1>2, <1>3, <2>1
  <1>8. CASE r.pc = "write"
    <2>1. StepsLeft(r) = 2 * Cardinality(r.todo) + Signalling(r) + 1
      BY <1>8, StepsLeftAt
    <2> QED  BY <1>2, <1>4, <1>8, <2>1
  <1>9. CASE r.pc = "duty"
    <2>1. StepsLeft(r) = 2 * Cardinality(r.todo) + Signalling(r)
      BY <1>9, StepsLeftAt
    <2> QED  BY <1>2, <1>4, <1>5, <1>9, <2>1
  <1>10. CASE r.pc \in {"save", "report"}
    BY <1>2, <1>10, StepsLeftAt
  <1> QED  BY <1>1, <1>6, <1>7, <1>8, <1>9, <1>10 DEF PCs, r

LEMMA FewerLeft ==
    ASSUME TypeOK, TypeOK', NEW t \in Threads, ~At(t, "idle"), Over(t) \/ Proceeds(t)
    PROVE  StepsLeft(th'[t]) < StepsLeft(th[t])
  <1> DEFINE r == th[t]
             next == th'[t]
  <1>1. CASE next = Idle
    <2>1. StepsLeft(next) = 0
      BY <1>1, IdleType, StepsLeftAt
    <2> QED  BY <2>1, StepsLeftBounds, Counts
  <1>2. CASE next = Emitting /\ r.op # "emit"
    <2>1. Emitting.unread = Fans
      BY DEF Emitting, Reads, Idle
    <2>2. StepsLeft(next) = 2 * Cardinality(Fans) + 2
      BY <1>2, <2>1, EmittingType, StepsLeftAt DEF Planning
    <2> QED  BY <1>2, <2>2, StepsLeftBounds, Counts
  <1>3. CASE Proceeds(t)
    <2>1. next.op = r.op /\ r.unread \in SUBSET Fans /\ Consistent(r)
      BY <1>3, ThreadFields DEF Proceeds, TypeOK, ControllerTypeOK
    <2>2. /\ Cardinality(Fans) \in Nat
          /\ Signalling(next) = Signalling(r) /\ Planning(next) = Planning(r)
          /\ Signalling(r) = IF r.op = "emit" THEN 0 ELSE 2 * Cardinality(Fans) + 2
          /\ Planning(r) = IF r.op = "emit" THEN 2 ELSE 4 * Cardinality(Fans) + 4
      BY <2>1, Counts DEF Signalling, Planning
    <2>3. Cardinality(r.unread) \in Nat
      BY <2>1, Counts
    <2>4. CASE r.pc = "load" /\ next.pc = "read" /\ next.unread = Fans
      BY <2>2, <2>4, StepsLeftAt
    <2>5. CASE r.pc = "read" /\ next.pc = "enable"
               /\ \E f \in r.unread : next.unread = r.unread \ {f}
      <3>1. Cardinality(next.unread) = Cardinality(r.unread) - 1
        BY <2>1, <2>5, Counts
      <3>2. /\ StepsLeft(next) = 2 * Cardinality(next.unread) + Planning(next) + 1
            /\ StepsLeft(r) = 2 * Cardinality(r.unread) + Planning(r)
        BY <2>5, StepsLeftAt
      <3> QED  BY <2>2, <2>3, <3>1, <3>2
    <2>6. CASE r.pc = "enable" /\ next.pc \in {"read", "plan"} /\ next.unread = r.unread
      BY <2>2, <2>3, <2>6, StepsLeftAt
    <2>7. CASE r.pc = "plan" /\ next.pc = "write" /\ r.op # "emit" /\ next.todo \in SUBSET Fans
      <3>1. Cardinality(next.todo) \in Nat /\ Cardinality(next.todo) <= Cardinality(Fans)
        BY <2>7, Counts
      <3> QED  BY <2>2, <2>7, <3>1, StepsLeftAt
    <2>8. CASE r.pc = "plan" /\ next.pc \in {"save", "report"}
      BY <2>2, <2>8, StepsLeftAt
    <2>9. CASE r.pc = "write" /\ next.pc = "duty" /\ next.todo = r.todo
      <3>1. Cardinality(r.todo) \in Nat
        BY <2>1, <2>9, Counts DEF Consistent
      <3> QED  BY <2>2, <2>9, <3>1, StepsLeftAt
    <2>10. CASE r.pc \in {"write", "duty"} /\ next.pc = "write"
                /\ \E f \in r.todo : next.todo = r.todo \ {f}
      <3>1. r.todo \in SUBSET Fans
        BY <2>1, <2>10 DEF Consistent
      <3>2. Cardinality(next.todo) = Cardinality(r.todo) - 1 /\ Cardinality(r.todo) \in Nat
        BY <2>10, <3>1, Counts
      <3>3. StepsLeft(next) = 2 * Cardinality(next.todo) + Signalling(next) + 1
        BY <2>10, StepsLeftAt
      <3>4. StepsLeft(r) \in {2 * Cardinality(r.todo) + Signalling(r) + 1,
                             2 * Cardinality(r.todo) + Signalling(r)}
        BY <2>10, StepsLeftAt
      <3> QED  BY <2>2, <3>2, <3>3, <3>4
    <2> QED  BY <1>3, <2>4, <2>5, <2>6, <2>7, <2>8, <2>9, <2>10
        DEF Proceeds, Prepares, Chooses, Takes, Strikes
  <1> QED  BY <1>1, <1>2, <1>3 DEF Over

\* What others do to a thread that is in an operation: nothing, or its end.
LEMMA OnlyItself ==
    ASSUME TypeOK, DownIdle, [Next]_vars, NEW t \in Threads, ~At(t, "idle"), ~Step(t)
    PROVE  th'[t] \in {th[t], Idle}
  <1>0. Main \in Threads /\ Handlers \subseteq Threads /\ Clis \subseteq Threads
    BY DEF Threads, Daemon
  <1>1. CASE Start \/ Serve \/ VerifySaved \/ EmitCurrent
    <2>1. At(Main, "idle") /\ \E r : Goto(Main, r)
      BY <1>1 DEF Start, Serve, VerifySaved, EmitCurrent, DownIdle
    <2> QED  BY <1>0, <2>1 DEF Goto, TypeOK, ControllerTypeOK
  <1>2. CASE Crash \/ \E s \in Clis : KillCli(s)
    BY <1>2 DEF Crash, KillCli, Dies
  <1>3. ASSUME NEW s \in Threads, Step(s)  PROVE  th'[t] = th[t]
    BY <1>3, StepAlone
  <1>4. ASSUME NEW s \in Threads, CallOn(s)  PROVE  th'[t] = th[t]
    <2>1. At(s, "idle") /\ \E r : Goto(s, r)
      BY <1>4 DEF CallOn, SetPercent, SetMax, SetAuto, SaveState, RestoreState, Call
    <2> QED  BY <2>1 DEF Goto, TypeOK, ControllerTypeOK
  <1>5. CASE Firmware \/ WindowExpires \/ UNCHANGED vars
    BY <1>5 DEF Firmware, WindowExpires, vars, cvars
  <1> QED  BY <1>0, <1>1, <1>2, <1>3, <1>4, <1>5 DEF Next

\* Every operation ends after at most 6N + 5 steps of its own on a chip of N
\* headers, its signal included, if the scheduler runs it and however it is
\* disturbed: its steps only ever run out (SetPercent, SetMax, SetAuto,
\* SaveState, RestoreState, VerifySaved, EmitCurrent and the commands).
THEOREM OperationsEnd == Spec => StepsRunOut
  <1>1. Init => DownIdle
    BY IdleType DEF Init, DownIdle, At, Threads, Daemon
  <1>2. ASSUME TypeOK, TypeOK', DownIdle, [Next]_vars, NEW t \in Threads, ~At(t, "idle")
        PROVE  /\ StepsLeft(th[t]) \in 1..6 * Cardinality(Fans) + 5
               /\ IF Step(t) THEN StepsLeft(th'[t]) < StepsLeft(th[t])
                             ELSE StepsLeft(th'[t]) <= StepsLeft(th[t])
    <2>1. StepsLeft(th[t]) \in 1..6 * Cardinality(Fans) + 5
      BY <1>2, StepsLeftBounds
    <2>2. Step(t) => StepsLeft(th'[t]) < StepsLeft(th[t])
      BY <1>2, StepProceeds, FewerLeft
    <2>3. StepsLeft(Idle) = 0
      BY IdleType, StepsLeftAt
    <2>4. ~Step(t) => StepsLeft(th'[t]) <= StepsLeft(th[t])
      BY <1>2, <2>1, <2>3, OnlyItself, Counts
    <2> QED  BY <2>1, <2>2, <2>4
  <1>3. TypeOK /\ TypeOK' /\ DownIdle /\ [Next]_vars =>
            [\A t \in Threads : ~At(t, "idle") =>
                /\ StepsLeft(th[t]) \in 1..6 * Cardinality(Fans) + 5
                /\ IF Step(t) THEN StepsLeft(th'[t]) < StepsLeft(th[t])
                              ELSE StepsLeft(th'[t]) <= StepsLeft(th[t])]_vars
    BY <1>2
  <1> QED  BY <1>1, <1>3, TypeInit, TypeStep, DownIdleStep, PTL DEF Spec, StepsRunOut

-----------------------------------------------------------------------------
(* Taken headers.                                                          *)

\* Where a thread may be after any step of the system.
LEMMA Onwards ==
    ASSUME TypeOK, TypeOK', DownIdle, [Next]_vars, NEW t \in Threads
    PROVE  \/ th'[t] \in {th[t], Idle}
           \/ Over(t) \/ Proceeds(t)
           \/ At(t, "idle") /\ th'[t].pc \in {"load", "read", "write"}
  <1>0. Main \in Threads /\ Handlers \subseteq Threads /\ Clis \subseteq Threads
    BY DEF Threads, Daemon
  <1>1. CASE ~At(t, "idle")
    BY <1>1, StepProceeds, OnlyItself
  <1>2. CASE At(t, "idle")
    <2>1. ASSUME NEW s \in Threads, NEW r, Goto(s, r),
                 r \in {Idle, Emitting} \/ r.pc \in {"load", "read", "write"}
          PROVE  th'[t] \in {th[t], Idle} \/ th'[t].pc \in {"load", "read", "write"}
      BY <2>1, EmittingType DEF Goto, TypeOK, ControllerTypeOK
    <2>2. /\ \A op : Loads(op).pc = "load"
          /\ \A op, want : Reads(op, want).pc = "read"
          /\ \A op, want, todo : Writes(op, want, todo).pc = "write"
      BY DEF Loads, Reads, Writes, Idle
    <2>3. CASE Start \/ Serve \/ VerifySaved \/ EmitCurrent
      <3>1. \E r : Goto(Main, r) /\ (r \in {Idle, Emitting} \/ r.pc = "load")
        BY <2>2, <2>3 DEF Start, Serve, VerifySaved, EmitCurrent
      <3> QED  BY <1>0, <1>2, <2>1, <3>1
    <2>4. ASSUME NEW s \in Threads, CallOn(s)
          PROVE  th'[t] \in {th[t], Idle} \/ th'[t].pc \in {"load", "read", "write"}
      <3>1. \E r : Goto(s, r) /\ r.pc \in {"load", "read", "write"}
        BY <2>2, <2>4 DEF CallOn, SetPercent, SetMax, SetAuto, SaveState, RestoreState, Call
      <3> QED  BY <2>1, <3>1
    <2>5. ASSUME NEW s \in Threads, Step(s)  PROVE  th'[t] = th[t]
      BY <1>2, <2>5, StepAlone
    <2>6. CASE Crash \/ \E s \in Clis : KillCli(s)
      BY <2>6 DEF Crash, KillCli, Dies
    <2>7. CASE Firmware \/ WindowExpires \/ UNCHANGED vars
      BY <2>7 DEF Firmware, WindowExpires, vars, cvars
    <2> QED  BY <1>0, <1>2, <2>3, <2>4, <2>5, <2>6, <2>7 DEF Next
  <1> QED  BY <1>1, <1>2

\* The header a thread is about to give its duty has a mode register, which the
\* thread has set, and is the lowest of those it still has to write.
TakenInOrder ==
    \A t \in Threads : At(t, "duty") =>
        HasEnable(th[t].fan) /\ \A g \in th[t].todo : th[t].fan <= g

LEMMA InOrderInit == Init => TakenInOrder
  BY IdleType DEF Init, TakenInOrder, At

LEMMA InOrderStep ==
    TypeOK /\ TypeOK' /\ DownIdle /\ TakenInOrder /\ [Next]_vars => TakenInOrder'
  <1> SUFFICES ASSUME TypeOK, TypeOK', DownIdle, TakenInOrder, [Next]_vars,
                      NEW t \in Threads, At(t, "duty")'
               PROVE  (HasEnable(th[t].fan) /\ \A g \in th[t].todo : th[t].fan <= g)'
    BY DEF TakenInOrder
  <1>1. CASE th'[t] = th[t]
    BY <1>1 DEF TakenInOrder, At, HasEnable
  <1>2. CASE Takes(t)
    BY <1>2 DEF Takes, HasEnable
  <1>3. th'[t].pc = "duty"
    BY DEF At
  <1> QED  BY <1>1, <1>2, <1>3, Onwards, IdleType, EmittingType
           DEF Over, Proceeds, Prepares, Chooses, Strikes

-----------------------------------------------------------------------------
(* The fan board.                                                          *)

\* A thread gives up part of what it asked for, or nothing.
Yields(t) ==
    /\ Asked(t)' = [f \in DOMAIN Asked(t) \cap DOMAIN Asked(t)' |-> Asked(t)[f]]
    /\ Taking(t)' = IF Asked(t)' = Asked(t) THEN Taking(t) ELSE 0

Quiet == UNCHANGED <<registers, drifted>>

LEMMA QuietBoard ==
    ASSUME Quiet
    PROVE  /\ {f \in Fans : FirmwareDriven(f)}' = {f \in Fans : FirmwareDriven(f)}
           /\ [f \in Fans |-> IF f \in drifted THEN -1 ELSE duty[f]]'
                  = [f \in Fans |-> IF f \in drifted THEN -1 ELSE duty[f]]
  BY DEF Quiet, registers, FirmwareDriven

LEMMA AllYield ==
    ASSUME Quiet, \A t \in Threads : Yields(t)
    PROVE  Board!GiveUp
  <1> DEFINE asked  == [t \in Threads |-> Asked(t)]
             taking == [t \in Threads |-> Taking(t)]
             kept(c) == [f \in DOMAIN asked[c] \cap DOMAIN asked'[c] |-> asked[c][f]]
             held(c) == IF asked'[c] = asked[c] THEN taking[c] ELSE 0
  <1>1. ASSUME NEW c \in Threads
        PROVE  Asked(c)' = kept(c) /\ Taking(c)' = held(c)
    <2>1. asked[c] = Asked(c) /\ asked'[c] = Asked(c)' /\ taking[c] = Taking(c)
      OBVIOUS
    <2> HIDE DEF asked, taking
    <2> QED  BY <2>1 DEF Yields
  <1>2. /\ [t \in Threads |-> Asked(t)'] = [c \in Threads |-> kept(c)]
        /\ [t \in Threads |-> Taking(t)'] = [c \in Threads |-> held(c)]
    <2> HIDE DEF kept, held
    <2> QED  BY <1>1
  <1> QED  BY <1>1, <1>2, QuietBoard DEF Board!GiveUp, Board!NoFan

LEMMA RestYields ==
    ASSUME TypeOK, NEW t \in Threads, th'[t] = th[t]
    PROVE  Asked(t)' = Asked(t) /\ Taking(t)' = Taking(t) /\ Yields(t)
  <1>1. Asked(t)' = Asked(t) /\ Taking(t)' = Taking(t)
    BY DEF Asked, Taking, At
  <1>2. Asked(t) = [f \in DOMAIN Asked(t) |-> Asked(t)[f]]
    BY DEF Asked, NoProfile
  <1> QED  BY <1>1, <1>2 DEF Yields

\* Threads that want to write nothing any more.
LEMMA NothingYields ==
    ASSUME TypeOK, NEW t \in Threads, th'[t].pc \notin {"write", "duty"}
    PROVE  Yields(t)
  <1>1. Asked(t)' = NoProfile /\ Taking(t)' = 0
    BY DEF Asked, Taking, At
  <1>2. Asked(t) = NoProfile => Taking(t) = 0
    <2>1. At(t, "duty") => th[t].fan \in DOMAIN Asked(t)
      BY DEF Asked, At, TypeOK, ControllerTypeOK, Consistent
    <2>2. DOMAIN NoProfile = {}
      BY DEF NoProfile
    <2> QED  BY <2>1, <2>2 DEF Taking
  <1>3. [f \in DOMAIN Asked(t) \cap DOMAIN NoProfile |-> Asked(t)[f]] = NoProfile
    BY DEF NoProfile
  <1> QED  BY <1>1, <1>2, <1>3 DEF Yields

LEMMA StrikeYields ==
    ASSUME TypeOK, NEW t \in Threads, Strikes(t)
    PROVE  Yields(t)
  <1>1. PICK f \in th[t].todo : th'[t].todo = th[t].todo \ {f}
    BY DEF Strikes
  <1>2. /\ Asked(t) = [g \in th[t].todo |-> th[t].want[g]]
        /\ Asked(t)' = [g \in th[t].todo \ {f} |-> th[t].want[g]]
        /\ Taking(t)' = 0
    BY <1>1 DEF Strikes, Asked, Taking, At
  <1>3. Asked(t)' # Asked(t)
    <2>1. f \in DOMAIN Asked(t) /\ f \notin DOMAIN Asked(t)'
      BY <1>1, <1>2
    <2> QED  BY <2>1
  <1>4. Asked(t)' = [g \in DOMAIN Asked(t) \cap DOMAIN Asked(t)' |-> Asked(t)[g]]
    BY <1>2
  <1> QED  BY <1>2, <1>3, <1>4 DEF Yields

LEMMA ChoiceAsks ==
    ASSUME TypeOK, TypeOK', Quiet, NEW t \in Threads,
           th[t].pc \notin {"write", "duty"}, th'[t].pc = "write",
           \A s \in Threads : s # t => th'[s] = th[s]
    PROVE  Board!Ask(t)
  <1>1. Asked(t) = NoProfile /\ Taking(t) = 0 /\ Taking(t)' = 0
    BY DEF Asked, Taking, At
  <1>2. Asked(t)' = [f \in th'[t].todo |-> th'[t].want[f]]
    BY DEF Asked
  <1>3. th'[t].todo \subseteq DOMAIN th'[t].want \cap Fans /\ th'[t].want \in Profile
    BY ThreadFields DEF TypeOK, ControllerTypeOK, Consistent
  <1>4. \A f \in DOMAIN Asked(t)' : f \in Fans /\ Asked(t)'[f] \in FanState
    BY <1>2, <1>3, ProfileElim
  <1>5. NoProfile = Board!NoRequest
    BY DEF NoProfile, Board!NoRequest
  <1>6. \A s \in Threads : s # t => Asked(s)' = Asked(s) /\ Taking(s)' = Taking(s)
    BY RestYields
  <1>7. [s \in Threads |-> Taking(s)]' = [s \in Threads |-> Taking(s)]
    BY <1>1, <1>6
  <1>8. [s \in Threads |-> Asked(s)]'
            = [[s \in Threads |-> Asked(s)] EXCEPT ![t] = [s \in Threads |-> Asked(s)]'[t]]
    BY <1>6
  <1> QED  BY <1>1, <1>4, <1>5, <1>7, <1>8, QuietBoard DEF Board!Ask

\* What a step of t leaves of the other threads.
LEMMA OthersAsked ==
    ASSUME TypeOK, NEW t \in Threads, \A s \in Threads : s # t => th'[s] = th[s]
    PROVE  /\ [s \in Threads |-> Asked(s)]'
                  = [[s \in Threads |-> Asked(s)] EXCEPT ![t] = Asked(t)']
           /\ [s \in Threads |-> Taking(s)]'
                  = [[s \in Threads |-> Taking(s)] EXCEPT ![t] = Taking(t)']
           /\ Asked(t)' = Asked(t) =>
                  [s \in Threads |-> Asked(s)]' = [s \in Threads |-> Asked(s)]
  <1>1. \A s \in Threads : s # t => Asked(s)' = Asked(s) /\ Taking(s)' = Taking(s)
    BY RestYields
  <1> QED  BY <1>1

\* A thread that is done with header f.
LEMMA StrikeServes ==
    ASSUME TypeOK, NEW t \in Threads, NEW f \in Fans, Goto(t, Wrote(t, f)),
           th[t].pc \in {"write", "duty"}
    PROVE  Board!Served(t, f)
  <1>1. th'[t].pc = "write" /\ th'[t].want = th[t].want /\ th'[t].todo = th[t].todo \ {f}
    BY WriterFields
  <1>2. /\ Asked(t) = [g \in th[t].todo |-> th[t].want[g]]
        /\ Asked(t)' = [g \in th[t].todo \ {f} |-> th[t].want[g]]
        /\ Taking(t)' = 0
    BY <1>1 DEF Asked, Taking, At
  <1>3. Asked(t)' = [g \in DOMAIN Asked(t) \ {f} |-> Asked(t)[g]]
    BY <1>2
  <1>4. \A s \in Threads : s # t => th'[s] = th[s]
    BY DEF Goto, TypeOK, ControllerTypeOK
  <1> DEFINE asked == [s \in Threads |-> Asked(s)]
  <1>5. asked[t] = Asked(t)
    OBVIOUS
  <1>6. asked' = [asked EXCEPT ![t] = [g \in DOMAIN asked[t] \ {f} |-> asked[t][g]]]
    <2>1. asked' = [asked EXCEPT ![t] = Asked(t)']
      BY <1>4, OthersAsked
    <2> HIDE DEF asked
    <2> QED  BY <1>3, <1>5, <2>1
  <1> QED  BY <1>2, <1>4, <1>6, OthersAsked DEF Board!Served, Board!NoFan

LEMMA UpcomingAsked ==
    ASSUME NEW t \in Threads, NEW f \in th[t].todo, th[t].pc \in {"write", "duty"},
           \A g \in th[t].todo : f <= g
    PROVE  Board!Upcoming(t, f, th[t].want[f].mode) /\ Asked(t)[f] = th[t].want[f]
  <1>1. Asked(t) = [g \in th[t].todo |-> th[t].want[g]]
    BY DEF Asked
  <1> QED  BY <1>1 DEF Board!Upcoming

LEMMA ManualTakes ==
    ASSUME TypeOK, NEW t \in Threads, WriteManual(t)
    PROVE  \E f \in Fans : Board!Take(t, f)
  <1>1. PICK f \in Fans :
            /\ Upcoming(t, f) /\ th[t].want[f].mode = "manual" /\ HasEnable(f)
            /\ enable' = [enable EXCEPT ![f] = EnableManual] /\ UNCHANGED <<duty, drifted>>
            /\ Goto(t, [th[t] EXCEPT !.pc = "duty", !.fan = f])
    BY DEF WriteManual, WriteMode, marks
  <1>2. /\ th'[t].pc = "duty" /\ th'[t].want = th[t].want /\ th'[t].todo = th[t].todo
        /\ th'[t].fan = f /\ th[t].pc = "write"
        /\ \A s \in Threads : s # t => th'[s] = th[s]
    BY <1>1, WriterFields DEF Upcoming, At, Goto, TypeOK, ControllerTypeOK
  <1>3. Board!Upcoming(t, f, "manual")
    BY <1>1, <1>2, UpcomingAsked DEF Upcoming
  <1>4. Asked(t)' = Asked(t) /\ Taking(t) = 0 /\ Taking(t)' = f
    BY <1>2 DEF Asked, Taking, At
  <1>5. enable'[f] = EnableManual /\ \A g \in Fans : g # f => enable'[g] = enable[g]
    BY <1>1 DEF TypeOK, ControllerTypeOK, SysfsTypeOK
  <1>6. {g \in Fans : FirmwareDriven(g)}' = {g \in Fans : FirmwareDriven(g)} \ {f}
    BY <1>5 DEF FirmwareDriven, HasEnable
  <1>7. [g \in Fans |-> IF g \in drifted THEN -1 ELSE duty[g]]'
            = [g \in Fans |-> IF g \in drifted THEN -1 ELSE duty[g]]
    BY <1>1
  <1>8. Board!Take(t, f)
    BY <1>1, <1>2, <1>3, <1>4, <1>6, <1>7, OthersAsked DEF Board!Take, Board!NoFan
  <1> QED  BY <1>8

LEMMA DutyDrives ==
    ASSUME TypeOK, TakenInOrder, NEW t \in Threads, WriteDuty(t)
    PROVE  \E f \in Fans : Board!Drive(t, f)
  <1>1. PICK f \in Fans :
            /\ DutyDue(t, f) /\ Goto(t, Wrote(t, f))
            /\ duty' = [duty EXCEPT ![f] = th[t].want[f].pwm] /\ enable' = enable
            /\ drifted' = drifted \ {f}
    BY DEF WriteDuty, WritePWM
  <1>2. /\ th[t].pc \in {"write", "duty"} /\ f \in th[t].todo
        /\ th[t].want[f].mode = "manual" /\ \A g \in th[t].todo : f <= g
    BY <1>1, DutyDueFacts DEF DutyDue, Upcoming, At, TakenInOrder, TypeOK
  <1>3. Taking(t) = IF HasEnable(f) THEN f ELSE 0
    BY <1>1 DEF DutyDue, Upcoming, At, Taking, TakenInOrder
  <1>4. Board!Upcoming(t, f, "manual") /\ Asked(t)[f] = th[t].want[f]
    BY <1>2, UpcomingAsked
  <1>5. Board!Served(t, f)
    BY <1>1, <1>2, StrikeServes
  <1>6. duty'[f] = th[t].want[f].pwm /\ \A g \in Fans : g # f => duty'[g] = duty[g]
    BY <1>1 DEF TypeOK, ControllerTypeOK, SysfsTypeOK
  <1>7. {g \in Fans : FirmwareDriven(g)}' = {g \in Fans : FirmwareDriven(g)}
    BY <1>1 DEF FirmwareDriven, HasEnable
  <1> DEFINE speed == [g \in Fans |-> IF g \in drifted THEN -1 ELSE duty[g]]
  <1>8. speed' = [speed EXCEPT ![f] = Asked(t)[f].pwm]
    BY <1>1, <1>4, <1>6
  <1>9. Board!Drive(t, f)
    BY <1>3, <1>4, <1>5, <1>7, <1>8 DEF Board!Drive, Board!NoFan
  <1> QED  BY <1>9

LEMMA AutoReleases ==
    ASSUME TypeOK, NEW t \in Threads, WriteAuto(t)
    PROVE  \E f \in Fans : Board!Release(t, f)
  <1>1. PICK f \in Fans :
            /\ Upcoming(t, f) /\ th[t].want[f].mode = "auto" /\ CanRelease(f)
            /\ enable' = [enable EXCEPT ![f] = EnableAuto] /\ UNCHANGED <<duty, drifted>>
            /\ Goto(t, Wrote(t, f))
    BY DEF WriteAuto, WriteMode
  <1>2. th[t].pc = "write" /\ f \in th[t].todo /\ \A g \in th[t].todo : f <= g
    BY <1>1 DEF Upcoming, At
  <1>3. Board!Upcoming(t, f, "auto") /\ Board!Served(t, f)
    BY <1>1, <1>2, UpcomingAsked, StrikeServes
  <1>4. enable'[f] = EnableAuto /\ \A g \in Fans : g # f => enable'[g] = enable[g]
    BY <1>1 DEF TypeOK, ControllerTypeOK, SysfsTypeOK
  <1>5. HasEnable(f)
    BY <1>1 DEF CanRelease, HasEnable
  <1>6. {g \in Fans : FirmwareDriven(g)}' = {g \in Fans : FirmwareDriven(g)} \cup {f}
    <2>1. \A g \in Fans : FirmwareDriven(g)' <=> FirmwareDriven(g) \/ g = f
      BY <1>4, <1>5 DEF FirmwareDriven, HasEnable, EnableAuto, EnableManual
    <2> QED  BY <2>1
  <1>7. [g \in Fans |-> IF g \in drifted THEN -1 ELSE duty[g]]'
            = [g \in Fans |-> IF g \in drifted THEN -1 ELSE duty[g]]
    BY <1>1
  <1>8. Board!Release(t, f)
    BY <1>3, <1>5, <1>6, <1>7 DEF Board!Release
  <1> QED  BY <1>8

LEMMA FirmwareOfBoard ==
    ASSUME TypeOK, Firmware
    PROVE  \E f \in Fans : Board!Firmware(f)
  <1>1. PICK f \in Fans :
            /\ FirmwareMoves(f) \/ FirmwareReverts(f)
            /\ drifted' = drifted \cup {f} /\ th' = th
    BY DEF Firmware
  <1>2. /\ HasEnable(f) /\ enable'[f] # EnableManual
        /\ \A g \in Fans : g # f => enable'[g] = enable[g] /\ duty'[g] = duty[g]
    BY <1>1 DEF FirmwareMoves, FirmwareReverts, FirmwareDriven, WriteMode, WritePWM,
                TypeOK, ControllerTypeOK, SysfsTypeOK, EnableAuto, EnableManual, NoEnable
  <1>3. {g \in Fans : FirmwareDriven(g)}' = {g \in Fans : FirmwareDriven(g)} \cup {f}
    BY <1>2 DEF FirmwareDriven, HasEnable
  <1> DEFINE speed == [g \in Fans |-> IF g \in drifted THEN -1 ELSE duty[g]]
  <1>4. speed' = [speed EXCEPT ![f] = -1]
    BY <1>1, <1>2
  <1>5. \A t \in Threads : Asked(t)' = Asked(t) /\ Taking(t)' = Taking(t)
    BY <1>1 DEF Asked, Taking, At
  <1>6. Board!Firmware(f)
    BY <1>2, <1>3, <1>4, <1>5 DEF Board!Firmware, Board!Drifted
  <1> QED  BY <1>6

\* Steps that touch neither registers nor the marks of the firmware.
LEMMA QuietStepOfBoard ==
    ASSUME TypeOK, TypeOK', NEW t \in Threads, Quiet, ~At(t, "idle"),
           \A s \in Threads : s # t => th'[s] = th[s],
           Over(t) \/ Prepares(t) \/ Chooses(t) \/ Strikes(t)
    PROVE  Board!GiveUp \/ Board!Ask(t)
  <1>1. CASE Chooses(t)
    BY <1>1, ChoiceAsks DEF Chooses
  <1>2. CASE Over(t) \/ Prepares(t)
    <2>1. th'[t].pc \notin {"write", "duty"}
      BY <1>2, IdleType, EmittingType DEF Over, Prepares
    <2> QED  BY <2>1, NothingYields, RestYields, AllYield
  <1>3. CASE Strikes(t)
    BY <1>3, StrikeYields, RestYields, AllYield
  <1> QED  BY <1>1, <1>2, <1>3

LEMMA StepOfBoard ==
    ASSUME TypeOK, TypeOK', TakenInOrder, NEW t \in Threads, Step(t)
    PROVE  Board!BoardNext
  <1>1. ~At(t, "idle") /\ \A s \in Threads : s # t => th'[s] = th[s]
    BY StepAlone
  <1>2. CASE WriteManual(t) \/ WriteDuty(t) \/ WriteAuto(t)
    BY <1>2, ManualTakes, DutyDrives, AutoReleases DEF Board!BoardNext
  <1>3. CASE Refuse(t) \/ WriteFails(t)
    <2>1. Quiet
      BY <1>3 DEF Refuse, WriteFails, Quiet, marks
    <2> QED  BY <1>1, <1>3, <2>1, PassesOver, QuietStepOfBoard DEF Board!BoardNext
  <1>4. CASE \/ LoadProfile(t) \/ ReadDuty(t) \/ ReadEnable(t)
             \/ PlanMax(t) \/ PlanAuto(t) \/ PlanRestore(t) \/ PlanSave(t) \/ PlanEmit(t)
    <2>1. Quiet
      BY <1>4 DEF LoadProfile, ReadDuty, ReadEnable, PlanMax, PlanAuto, PlanRestore, PlanSave,
                  PlanEmit, Decides, Quiet, history, marks
    <2> QED  BY <1>1, <1>4, <2>1, ReadsProceed, PlansProceed, QuietStepOfBoard DEF Board!BoardNext
  <1>5. CASE ReadStatusFails(t) \/ SaveProfile(t) \/ EmitFansChanged(t) \/ Finish(t)
    <2>1. Quiet /\ \E ok \in BOOLEAN : Ends(t, ok)
      BY <1>5 DEF ReadStatusFails, SaveProfile, EmitFansChanged, Finish, Succeeded, Quiet, marks
    <2> QED  BY <1>1, <2>1, EndsOver, QuietStepOfBoard DEF Board!BoardNext
  <1> QED  BY <1>2, <1>3, <1>4, <1>5 DEF Step

LEMMA CallOfBoard ==
    ASSUME TypeOK, TypeOK', NEW t \in Threads, CallOn(t)
    PROVE  Board!GiveUp \/ Board!Ask(t)
  <1>1. PICK r : Call(t, r) /\ r.pc \in {"load", "read", "write"}
    <2>1. /\ \A op : Loads(op).pc = "load"
          /\ \A op, want : Reads(op, want).pc = "read"
          /\ \A op, want, todo : Writes(op, want, todo).pc = "write"
      BY DEF Loads, Reads, Writes, Idle
    <2> QED  BY <2>1 DEF CallOn, SetPercent, SetMax, SetAuto, SaveState, RestoreState
  <1>2. /\ th'[t] = r /\ \A s \in Threads : s # t => th'[s] = th[s]
        /\ th[t].pc = "idle"
    BY <1>1 DEF Call, Goto, At, TypeOK, ControllerTypeOK
  <1>3. Quiet
    BY <1>1 DEF Call, Quiet, marks
  <1>4. CASE r.pc = "write"
    BY <1>2, <1>3, <1>4, ChoiceAsks
  <1>5. CASE r.pc # "write"
    BY <1>1, <1>2, <1>3, <1>5, NothingYields, RestYields, AllYield
  <1> QED  BY <1>4, <1>5

LEMMA BoardStep ==
    ASSUME TypeOK, TypeOK', TakenInOrder, [Next]_vars
    PROVE  Board!BoardNext
  <1>0. Main \in Threads /\ Handlers \subseteq Threads /\ Clis \subseteq Threads
    BY DEF Threads, Daemon
  <1>1. CASE Start \/ Serve \/ VerifySaved \/ EmitCurrent
    <2>1. Quiet
      BY <1>1 DEF Start, Serve, VerifySaved, EmitCurrent, Quiet, history, marks
    <2>2. \E r : Goto(Main, r) /\ r.pc \in {"load", "read", "idle"}
      <3>1. \A op : Loads(op).pc = "load"
        BY DEF Loads, Idle
      <3> QED  BY <1>1, <3>1, IdleType, EmittingType DEF Start, Serve, VerifySaved, EmitCurrent
    <2>3. /\ th'[Main].pc \notin {"write", "duty"}
          /\ \A s \in Threads : s # Main => th'[s] = th[s]
      BY <1>0, <2>2 DEF Goto, TypeOK, ControllerTypeOK
    <2> QED  BY <1>0, <2>1, <2>3, NothingYields, RestYields, AllYield DEF Board!BoardNext
  <1>2. CASE Crash \/ \E t \in Clis : KillCli(t)
    <2>1. Quiet
      BY <1>2 DEF Crash, KillCli, Quiet
    <2>2. \A s \in Threads : th'[s] \in {th[s], Idle}
      BY <1>2 DEF Crash, KillCli, Dies
    <2>3. \A s \in Threads : th'[s] = Idle => Yields(s)
      BY IdleType, NothingYields
    <2> QED  BY <2>1, <2>2, <2>3, RestYields, AllYield DEF Board!BoardNext
  <1>3. ASSUME NEW t \in Threads, Step(t)  PROVE  Board!BoardNext
    BY <1>3, StepOfBoard
  <1>4. ASSUME NEW t \in Threads, CallOn(t)  PROVE  Board!BoardNext
    BY <1>4, CallOfBoard DEF Board!BoardNext
  <1>5. CASE Firmware
    BY <1>5, FirmwareOfBoard DEF Board!BoardNext
  <1>6. CASE WindowExpires \/ UNCHANGED vars
    <2>1. Quiet /\ th' = th
      BY <1>6 DEF WindowExpires, vars, cvars, Quiet, history, marks
    <2> QED  BY <2>1, RestYields, AllYield DEF Board!BoardNext
  <1> QED  BY <1>0, <1>1, <1>2, <1>3, <1>4, <1>5, <1>6 DEF Next

LEMMA BoardStart == Init => Board!BoardInit
  <1> SUFFICES ASSUME Init  PROVE  Board!BoardInit
    OBVIOUS
  <1>1. TypeOK /\ NoProfile = Board!NoRequest
    BY TypeInit DEF NoProfile, Board!NoRequest
  <1>2. \A t \in Threads : Asked(t) = NoProfile /\ Taking(t) = 0
    BY IdleType DEF Init, Asked, Taking, At
  <1>3. \A f \in Fans : duty[f] # -1 /\ (f \in drifted <=> FirmwareDriven(f))
    BY <1>1 DEF Init, TypeOK, ControllerTypeOK, SysfsTypeOK, Byte
  <1>4. \A f \in Fans : FirmwareDriven(f) => HasEnable(f)
    BY DEF FirmwareDriven
  <1> QED  BY <1>1, <1>2, <1>3, <1>4 DEF Board!BoardInit, Board!NoFan, Board!Drifted

\* All operations at once, with their errors, their deaths and the firmware, are
\* one fan board: a header changes hands or speed only as some client asked for
\* and has not been served yet, lowest index first and mode before speed, or as
\* the firmware may (SetPWMRaw, SetAutoIndex, SetMax, SetAuto, ApplyProfile).
THEOREM BoardRefinement == Spec => ImplementsBoard
  <1>1. Init => DownIdle
    BY IdleType DEF Init, DownIdle, At, Threads, Daemon
  <1>2. TypeOK /\ TypeOK' /\ TakenInOrder /\ [Next]_vars
            => [Board!BoardNext]_(Board!boardVars)
    BY BoardStep
  <1> QED  BY <1>1, <1>2, BoardStart, InOrderInit, InOrderStep, TypeInit, TypeStep,
              DownIdleStep, PTL DEF Spec, ImplementsBoard, Board!BoardSpec
=============================================================================
