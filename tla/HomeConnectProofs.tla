-------------------------- MODULE HomeConnectProofs --------------------------
(***************************************************************************)
(* Proofs about HomeConnect for any thresholds, targets, classes and       *)
(* traffic: what the guard reads is what was carried, so an aborted start  *)
(* that blames a surge has seen one, a claimed mode has not, and a class   *)
(* of local failures means that every target failed in that way.  The      *)
(* last part is the refinement of the home start of TunnelModes.           *)
(***************************************************************************)
EXTENDS HomeConnect, SequenceTheorems, TLAPS

-----------------------------------------------------------------------------
(* The guard                                                               *)

\* The comparison of homeTrafficRunaway by integer division is the one of the
\* products.
LEMMA RatioByProduct ==
  ASSUME NEW sent \in Nat, NEW received \in Nat, received # 0
  PROVE  sent \div received >= Ratio <=> sent >= Ratio * received
  <1>1. Ratio \in Nat
    BY GuardAssumption
  <1> DEFINE q == sent \div received
             r == sent % received
  <1>2. q \in Nat /\ r \in Nat /\ sent = received * q + r /\ r < received
    OBVIOUS
  <1> HIDE DEF q, r
  <1>3. CASE q >= Ratio
    <2>1. received * q >= received * Ratio
      BY <1>1, <1>2, <1>3
    <2> QED
      BY <1>1, <1>2, <1>3, <2>1
  <1>4. CASE q < Ratio
    <2>1. received * (q + 1) <= received * Ratio
      BY <1>1, <1>2, <1>4
    <2> QED
      BY <1>1, <1>2, <1>4, <2>1
  <1> QED
    BY <1>1, <1>2, <1>3, <1>4

LEMMA EvaluateClass ==
  ASSUME NEW base, NEW now
  PROVE  EvaluateHomeTrafficGuard(base, now) \in {"", "guard", "surge"}
  BY DEF EvaluateHomeTrafficGuard

LEMMA ReadBytes ==
  ASSUME NEW now \in Readings
  PROVE  now.bytes \in {counters, Zero}
  BY DEF Readings, Seen, Misread

LEMMA FirstElement ==
  ASSUME NEW S, NEW s \in Seq(S), Len(s) # 0
  PROVE  s[1] \in S /\ 1 \in DOMAIN s
  OBVIOUS

LEMMA CommonClass ==
  ASSUME NEW classes \in Seq(LocalClasses \cup {""}), Len(classes) # 0
  PROVE  CommonHomeDialFailureClass(classes) \in LocalClasses \cup {""}
  BY FirstElement DEF CommonHomeDialFailureClass

-----------------------------------------------------------------------------
(* Types                                                                   *)

Classes == LocalClasses \cup {"", "guard", "surge"}

LEMMA GuardedStep ==
  ASSUME NEW base, NEW now, NEW next \in Steps, Guarded(base, now, next), class \in Classes
  PROVE  pc' \in {next, "rollback"} /\ class' \in Classes /\ result' = result
  BY EvaluateClass DEF Guarded, Fails, Goto, Classes

LEMMA GuardFailsStep ==
  ASSUME NEW why \in {"", "guard"}, Fails(why)
  PROVE  pc' = "rollback" /\ class' \in Classes /\ result' = result
  BY DEF Fails, Classes

\* TypeOK without the sequence
PlainTypes ==
  /\ pc \in Steps
  /\ stack \in SUBSET Both
  /\ leased \in BOOLEAN /\ up \in BOOLEAN /\ saved \in BOOLEAN /\ claimed \in BOOLEAN
  /\ counters \in Bytes /\ flow \in Bytes /\ checked \in Bytes
  /\ baseline \in Bytes /\ probeBase \in Bytes
  /\ peers \in Nat
  /\ restarted \in BOOLEAN
  /\ blind \in SUBSET {"baseline", "probe", "final"}
  /\ class \in Classes
  /\ result \in {"", "ok", "error"}
  /\ before \in SUBSET Both
  /\ trouble \in SUBSET {"unclean", "unrestored"}

AttemptsType == attempts \in Seq(LocalClasses \cup {""})

LEMMA AttemptsStep ==
  ASSUME AttemptsType, [Next]_vars
  PROVE  AttemptsType'
  <1>1. CASE UNCHANGED attempts
    BY <1>1 DEF AttemptsType
  <1>2. CASE attempts' = <<>>
    BY <1>2, EmptySeq DEF AttemptsType
  <1>3. ASSUME NEW why \in LocalClasses \cup {""}, attempts' = Append(attempts, why)
        PROVE  AttemptsType'
    BY <1>3, AppendProperties DEF AttemptsType
  <1>4. \/ UNCHANGED attempts \/ attempts' = <<>>
        \/ \E why \in LocalClasses \cup {""} : attempts' = Append(attempts, why)
    BY DEF Next, Proceed, Tunnel, Begin, WarpIsOff, Apply, Prepare, TakeBaseline,
      EnsureService, CheckStarted, CheckProtected, CheckRouted, Check, Protect,
      VerifyRoutes, FindSource, VerifyAgain, Simple, AwaitHandshake, HandshakeTimeout,
      BeginProbe, Dial, CheckDialed, CheckReached, CheckResolved, FinalCheck, Claim,
      RollbackStops, RollbackUnclean, RollbackUnconfirmed, UndoStack, Forget, Carry,
      OutsideRestart, vars, guard
  <1> QED
    BY <1>1, <1>2, <1>3, <1>4

\* A packet counts in one direction.
LEMMA CarryCounts ==
  ASSUME NEW direction \in {"sent", "received"}, Carry(direction),
         counters \in Bytes, flow \in Bytes
  PROVE  /\ counters' \in Bytes /\ flow' \in Bytes
         /\ \E d \in {0, 1}, e \in {0, 1} :
              /\ counters'.sent = counters.sent + d
              /\ counters'.received = counters.received + e
              /\ pc \in Measured => /\ flow'.sent = flow.sent + d
                                    /\ flow'.received = flow.received + e
  <1>1. CASE direction = "sent"
    <2>1. counters' = [counters EXCEPT !.sent = @ + 1]
          /\ flow' = IF pc \in Measured THEN [flow EXCEPT !.sent = @ + 1] ELSE flow
      BY <1>1 DEF Carry
    <2> QED
      BY <2>1 DEF Bytes
  <1>2. CASE direction = "received"
    <2>1. counters' = [counters EXCEPT !.received = @ + 1]
          /\ flow' = IF pc \in Measured THEN [flow EXCEPT !.received = @ + 1] ELSE flow
      BY <1>2 DEF Carry
    <2> QED
      BY <2>1 DEF Bytes
  <1> QED
    BY <1>1, <1>2

LEMMA ControlStep ==
  ASSUME pc \in Steps, class \in Classes, result \in {"", "ok", "error"},
         AttemptsType, [Next]_vars
  PROVE  pc' \in Steps /\ class' \in Classes /\ result' \in {"", "ok", "error"}
  <1>1. CASE Begin \/ WarpIsOff \/ Apply \/ Prepare \/ TakeBaseline \/ EnsureService
    BY <1>1 DEF Begin, WarpIsOff, Apply, Prepare, TakeBaseline, EnsureService, Goto,
      Fails, Steps, Classes
  <1>2. CASE CheckStarted \/ CheckProtected \/ CheckRouted \/ BeginProbe \/ FinalCheck
    <2>1. \/ Fails("guard")
          \/ \E base \in {baseline, Zero, counters}, now \in Readings,
                next \in {"protect", "routes", "handshake", "source", "claim"} :
               Guarded(base, now, next)
      BY <1>2, ReadBytes DEF CheckStarted, CheckProtected, CheckRouted, Check, BeginProbe,
        FinalCheck
    <2> QED
      BY <2>1, GuardedStep, GuardFailsStep DEF Steps
  <1>3. CASE Protect \/ VerifyRoutes \/ FindSource \/ VerifyAgain \/ HandshakeTimeout
             \/ Dial
    BY <1>3 DEF Protect, VerifyRoutes, FindSource, VerifyAgain, Simple, HandshakeTimeout,
      Dial, Goto, Fails, Steps, Classes
  <1>4. CASE AwaitHandshake
    BY <1>4, GuardedStep, GuardFailsStep DEF AwaitHandshake, Steps
  <1>5. CASE CheckDialed
    <2>1. CASE \E now \in Readings : Guarded(probeBase, now, "dial")
      BY <2>1, GuardedStep DEF Steps
    <2>2. CASE Fails("guard")
      BY <2>2, GuardFailsStep DEF Steps
    <2>3. CASE Len(attempts) = Targets /\ Fails(CommonHomeDialFailureClass(attempts))
      <3>1. CommonHomeDialFailureClass(attempts) \in Classes
        BY <2>3, CommonClass, GuardAssumption DEF AttemptsType, Classes
      <3> QED
        BY <2>3, <3>1 DEF Fails, Steps
    <2> QED
      BY <1>5, <2>1, <2>2, <2>3 DEF CheckDialed
  <1>6. CASE CheckReached \/ CheckResolved
    <2>1. CASE \E now \in Readings, next \in {"resolved", "unresolved", "verify"} :
                 Guarded(probeBase, now, next)
      BY <2>1, GuardedStep DEF Steps
    <2>2. CASE Fails("guard") \/ Fails("")
      BY <2>2, GuardFailsStep DEF Steps
    <2> QED
      BY <1>6, <2>1, <2>2 DEF CheckReached, CheckResolved
  <1>7. CASE Claim \/ RollbackStops \/ RollbackUnclean \/ RollbackUnconfirmed \/ UndoStack
    BY <1>7 DEF Claim, RollbackStops, RollbackUnclean, RollbackUnconfirmed, UndoStack,
      Goto, Answer, Steps
  <1>8. CASE Tunnel \/ UNCHANGED vars
    BY <1>8 DEF Tunnel, Carry, OutsideRestart, vars
  <1> QED
    BY <1>1, <1>2, <1>3, <1>4, <1>5, <1>6, <1>7, <1>8 DEF Next, Proceed

LEMMA PlainStep ==
  ASSUME PlainTypes, AttemptsType, [Next]_vars
  PROVE  PlainTypes'
  <1>1. Zero \in Bytes
    BY DEF Zero, Bytes
  <1>2. Both \in SUBSET Both /\ OnlyIPv6 \in SUBSET Both
    BY DEF Both, OnlyIPv6
  <1>3. pc' \in Steps /\ class' \in Classes /\ result' \in {"", "ok", "error"}
    BY ControlStep DEF PlainTypes
  <1> USE <1>1, <1>3 DEF PlainTypes, host, traffic, guard
  <1>4. CASE Begin \/ WarpIsOff \/ Prepare
    BY <1>4 DEF Begin, WarpIsOff, Prepare
  <1>5. CASE Apply \/ UndoStack
    <2>1. stack' \in SUBSET Both
      BY <1>2, <1>5 DEF Apply, UndoStack
    <2>2. trouble' \in SUBSET {"unclean", "unrestored"}
      BY <1>5 DEF Apply, UndoStack
    <2>3. UNCHANGED <<up, leased, saved, claimed, before, traffic, guard>>
      BY <1>5 DEF Apply, UndoStack
    <2> QED
      BY <2>1, <2>2, <2>3
  <1>6. CASE TakeBaseline
    BY <1>6 DEF TakeBaseline
  <1>7. CASE EnsureService
    BY <1>7 DEF EnsureService
  <1>8. CASE CheckStarted \/ Protect \/ CheckProtected \/ VerifyRoutes \/ CheckRouted
             \/ AwaitHandshake \/ HandshakeTimeout \/ FindSource \/ CheckDialed
             \/ CheckReached \/ CheckResolved \/ VerifyAgain
    <2>1. UNCHANGED <<up, host, traffic, guard>>
      BY <1>8 DEF CheckStarted, Protect, CheckProtected, VerifyRoutes, CheckRouted, Check,
        Simple, AwaitHandshake, HandshakeTimeout, FindSource, CheckDialed, CheckReached,
        CheckResolved, VerifyAgain
    <2> QED
      BY <2>1
  <1>9. CASE BeginProbe \/ Dial \/ FinalCheck
    <2>1. /\ UNCHANGED <<up, host, traffic, baseline>>
          /\ probeBase' \in {probeBase, counters, Zero} /\ checked' \in {checked, flow}
          /\ blind' \in {blind, blind \cup {"probe"}, blind \cup {"final"}}
      BY <1>9, ReadBytes DEF BeginProbe, Dial, FinalCheck
    <2> QED
      BY <2>1
  <1>10. CASE Claim
    BY <1>10 DEF Claim, Forget
  <1>11. CASE RollbackStops \/ RollbackUnclean \/ RollbackUnconfirmed
    <2>1. Forget /\ UNCHANGED <<stack, saved, before, peers>>
          /\ leased' \in {leased, FALSE} /\ claimed' \in {claimed, FALSE}
          /\ up' \in {up, FALSE} /\ counters' \in {counters, Zero}
      BY <1>11 DEF RollbackStops, RollbackUnclean, RollbackUnconfirmed, Stopped
    <2>2. trouble' \in SUBSET {"unclean", "unrestored"}
      BY <1>11 DEF RollbackStops, RollbackUnclean, RollbackUnconfirmed
    <2> QED
      BY <2>1, <2>2 DEF Forget
  <1>12. ASSUME NEW direction \in {"sent", "received"}, Carry(direction) PROVE PlainTypes'
    <2>1. counters' \in Bytes /\ flow' \in Bytes
      BY <1>12, CarryCounts
    <2> QED
      BY <1>12, <2>1 DEF Carry
  <1>13. CASE OutsideRestart
    BY <1>13, GuardAssumption DEF OutsideRestart
  <1>14. CASE UNCHANGED vars
    BY <1>14 DEF vars
  <1> QED
    BY <1>4, <1>5, <1>6, <1>7, <1>8, <1>9, <1>10, <1>11, <1>12, <1>13, <1>14
    DEF Next, Proceed, Tunnel

LEMMA TypeStep ==
  ASSUME TypeOK, [Next]_vars
  PROVE  TypeOK'
  <1>1. PlainTypes /\ AttemptsType
    BY DEF TypeOK, PlainTypes, AttemptsType, Classes
  <1>2. PlainTypes' /\ AttemptsType'
    BY <1>1, PlainStep, AttemptsStep
  <1> QED
    BY <1>2 DEF TypeOK, PlainTypes, AttemptsType, Classes

-----------------------------------------------------------------------------
(* The readings                                                            *)

\* A tunnel that does not run has no counters.
Settled == ~up => counters = Zero

\* What is read since a baseline is at most what was carried.
Covers(base) ==
  /\ HomeCounterDelta(base.sent, counters.sent) <= flow.sent
  /\ HomeCounterDelta(base.received, counters.received) <= flow.received

Exact ==
  /\ counters.sent = baseline.sent + flow.sent
  /\ counters.received = baseline.received + flow.received

LEMMA ReadingsByField ==
  ReadingsAreTrue <=>
    /\ pc \in Measured /\ BaselineSeen => Covers(baseline) /\ (~restarted => Exact)
    /\ pc \in Probing /\ ProbeSeen => Covers(probeBase)
  BY DEF ReadingsAreTrue, Directions, Covers, Exact

LEMMA SettledStep ==
  ASSUME Settled, [Next]_vars
  PROVE  Settled'
  <1>1. CASE UNCHANGED <<up, counters>> \/ counters' = Zero
    BY <1>1 DEF Settled
  <1>2. CASE EnsureService
    BY <1>2 DEF EnsureService, Settled, traffic
  <1>3. ASSUME NEW direction \in {"sent", "received"}, Carry(direction)
        PROVE  Settled'
    BY <1>3 DEF Carry, Settled
  <1>4. \/ UNCHANGED <<up, counters>> \/ counters' = Zero \/ EnsureService
        \/ \E direction \in {"sent", "received"} : Carry(direction)
    BY DEF Next, Proceed, Tunnel, Begin, WarpIsOff, Apply, Prepare, TakeBaseline,
      CheckStarted, CheckProtected, CheckRouted, Check, Protect, VerifyRoutes,
      FindSource, VerifyAgain, Simple, AwaitHandshake, HandshakeTimeout, BeginProbe,
      Dial, CheckDialed, CheckReached, CheckResolved, FinalCheck, Claim, RollbackStops,
      RollbackUnclean, RollbackUnconfirmed, Stopped, UndoStack, OutsideRestart, vars,
      traffic
  <1> QED
    BY <1>1, <1>2, <1>3, <1>4

\* A packet makes no reading wrong,
LEMMA CarryKeepsReadings ==
  ASSUME NEW direction \in {"sent", "received"}, Carry(direction),
         counters \in Bytes, flow \in Bytes, baseline \in Bytes, probeBase \in Bytes,
         pc \in Measured
  PROVE  /\ Covers(baseline) => Covers(baseline)'
         /\ Covers(probeBase) => Covers(probeBase)'
         /\ Exact => Exact'
  <1>1. PICK d \in {0, 1}, e \in {0, 1} :
          /\ counters'.sent = counters.sent + d
          /\ counters'.received = counters.received + e
          /\ flow'.sent = flow.sent + d
          /\ flow'.received = flow.received + e
    BY CarryCounts
  <1>2. UNCHANGED <<baseline, probeBase>>
    BY DEF Carry, guard
  <1> QED
    BY <1>1, <1>2 DEF Covers, Exact, HomeCounterDelta, Bytes

\* nor does a restart.
LEMMA ZeroIsCovered ==
  ASSUME NEW base \in Bytes, counters = Zero, flow \in Bytes
  PROVE  Covers(base)
  BY DEF Covers, HomeCounterDelta, Bytes, Zero

LEMMA FreshIsCovered ==
  ASSUME counters \in Bytes, flow \in Bytes
  PROVE  Covers(counters)
  BY DEF Covers, HomeCounterDelta, Bytes

LEMMA ReadingsStep ==
  ASSUME TypeOK, TypeOK', Settled, ReadingsAreTrue, [Next]_vars
  PROVE  ReadingsAreTrue'
  <1> USE DEF BaselineSeen, ProbeSeen
  <1> DEFINE R == /\ pc \in Measured /\ BaselineSeen
                       => Covers(baseline) /\ (~restarted => Exact)
                  /\ pc \in Probing /\ ProbeSeen => Covers(probeBase)
  <1>0. R
    BY ReadingsByField
  <1>00. /\ counters \in Bytes /\ flow \in Bytes /\ baseline \in Bytes /\ probeBase \in Bytes
         /\ counters' \in Bytes /\ flow' \in Bytes /\ baseline' \in Bytes /\ probeBase' \in Bytes
    BY DEF TypeOK
  <1> SUFFICES R'
    BY ReadingsByField, PTL
  <1>1. CASE TakeBaseline
    <2>1. /\ pc' = "service" /\ flow' = Zero /\ UNCHANGED <<up, counters>>
          /\ \/ baseline' = counters
             \/ baseline' = Zero /\ blind' = IF up THEN {"baseline"} ELSE {}
      BY <1>1 DEF TakeBaseline, Goto, host
    <2>2. pc' \notin Probing
      BY <2>1 DEF Probing
    <2>3. CASE baseline' = counters
      BY <1>00, <2>1, <2>2, <2>3, FreshIsCovered DEF Covers, Exact, HomeCounterDelta, Bytes, Zero
    <2>4. CASE baseline' = Zero /\ blind' = IF up THEN {"baseline"} ELSE {}
      <3>1. CASE up
        BY <2>1, <2>2, <2>4, <3>1
      <3>2. CASE ~up
        BY <1>00, <2>1, <2>2, <2>4, <3>2
        DEF Covers, Exact, HomeCounterDelta, Bytes, Zero, Settled
      <3> QED
        BY <3>1, <3>2
    <2> QED
      BY <2>1, <2>3, <2>4
  <1>2. CASE BeginProbe
    <2>1. pc = "probe" /\ UNCHANGED <<counters, flow, baseline, restarted>>
      BY <1>2 DEF BeginProbe, traffic
    <2>2. \/ pc' = "rollback" /\ UNCHANGED blind
          \/ probeBase' = counters /\ UNCHANGED blind
          \/ probeBase' = Zero /\ blind' = blind \cup {"probe"}
      BY <1>2 DEF BeginProbe, Readings, Seen, Misread, Fails
    <2>3. pc \in Measured
      BY <2>1 DEF Measured
    <2>4. /\ Covers(baseline)' <=> Covers(baseline)
          /\ Exact' <=> Exact
      BY <2>1 DEF Covers, Exact
    <2>5. CASE pc' = "rollback" /\ UNCHANGED blind
      BY <2>5 DEF Measured, Probing
    <2>6. CASE probeBase' = counters /\ UNCHANGED blind
      <3>1. Covers(probeBase)'
        BY <1>00, <2>1, <2>6, FreshIsCovered DEF Covers, Bytes
      <3> QED
        BY <1>0, <2>1, <2>3, <2>4, <2>6, <3>1
    <2>7. CASE probeBase' = Zero /\ blind' = blind \cup {"probe"}
      <3>1. BaselineSeen /\ baseline = Zero => Covers(probeBase)'
        BY <1>0, <2>1, <2>3, <2>7 DEF Covers
      <3> QED
        BY <1>0, <2>1, <2>3, <2>4, <2>7, <3>1
    <2> QED
      BY <2>2, <2>5, <2>6, <2>7
  <1>3. CASE Claim \/ RollbackStops \/ RollbackUnclean \/ RollbackUnconfirmed
    <2>1. pc' \in {"idle", "undoStack"}
      BY <1>3 DEF Claim, RollbackStops, RollbackUnclean, RollbackUnconfirmed, Goto, Answer
    <2> QED
      BY <2>1 DEF Measured, Probing
  <1>4. ASSUME NEW direction \in {"sent", "received"}, Carry(direction) PROVE R'
    <2>1. UNCHANGED <<pc, blind, restarted, baseline>>
      BY <1>4 DEF Carry, guard
    <2>2. pc \in Probing => pc \in Measured
      BY DEF Probing, Measured
    <2> QED
      BY <1>0, <1>00, <1>4, <2>1, <2>2, CarryKeepsReadings
  <1>5. CASE OutsideRestart
    <2>1. /\ counters' = Zero /\ UNCHANGED <<pc, flow, baseline, probeBase, blind>>
          /\ pc \in Measured => restarted'
      BY <1>5 DEF OutsideRestart, guard
    <2> QED
      BY <1>0, <1>00, <2>1 DEF Covers, HomeCounterDelta, Bytes, Zero
  <1>6. ASSUME UNCHANGED <<counters, flow, baseline, probeBase, restarted, blind>>,
               pc' \in Measured => pc \in Measured, pc' \in Probing => pc \in Probing
        PROVE  R'
    BY <1>0, <1>6 DEF Covers, Exact
  <1>7. CASE Begin \/ WarpIsOff \/ Apply \/ Prepare \/ UndoStack \/ HandshakeTimeout
    <2>1. pc' \in {"disconnect", "apply", "prepare", "baseline", "rollback", "idle"}
          /\ UNCHANGED <<counters, flow, baseline, probeBase, restarted, blind>>
      BY <1>7 DEF Begin, WarpIsOff, Apply, Prepare, UndoStack, HandshakeTimeout, Goto, Fails,
        Answer, traffic, guard
    <2> QED
      BY <1>6, <2>1 DEF Measured, Probing
  <1>8. CASE \/ EnsureService \/ CheckStarted \/ Protect \/ CheckProtected \/ VerifyRoutes
             \/ CheckRouted \/ AwaitHandshake \/ VerifyAgain
    <2>1. pc \in Measured /\ pc' \notin Probing
          /\ UNCHANGED <<counters, flow, baseline, probeBase, restarted, blind>>
      BY <1>8 DEF EnsureService, CheckStarted, Protect, CheckProtected, VerifyRoutes,
        CheckRouted, AwaitHandshake, VerifyAgain, Check, Simple, Guarded, Goto, Fails,
        traffic, guard, Measured, Probing
    <2> QED
      BY <1>6, <2>1
  <1>9. CASE FindSource \/ Dial \/ CheckDialed \/ CheckReached \/ CheckResolved
    <2>1. pc \in Measured /\ pc \in Probing
          /\ UNCHANGED <<counters, flow, baseline, probeBase, restarted, blind>>
      BY <1>9 DEF FindSource, Dial, CheckDialed, CheckReached, CheckResolved, Simple, traffic,
        guard, Measured, Probing
    <2> QED
      BY <1>6, <2>1
  <1>10. CASE UNCHANGED vars
    BY <1>6, <1>10 DEF vars, traffic, guard
  <1>11. CASE FinalCheck
    <2>1. /\ pc = "final" /\ pc' \in {"claim", "rollback"}
          /\ UNCHANGED <<counters, flow, baseline, restarted>>
          /\ BaselineSeen' => BaselineSeen
      BY <1>11 DEF FinalCheck, Guarded, Goto, Fails, traffic
    <2>2. pc \in Measured /\ pc' \notin Probing
      BY <2>1 DEF Measured, Probing
    <2> QED
      BY <1>0, <2>1, <2>2 DEF Covers, Exact
  <1> QED
    BY <1>1, <1>2, <1>3, <1>4, <1>5, <1>7, <1>8, <1>9, <1>10, <1>11 DEF Next, Proceed, Tunnel

\* Types, a stopped tunnel without counters, and true readings hold together:
\* what is read after a restart depends on the counters a start begins with.
SoundReadings == TypeOK /\ Settled /\ ReadingsAreTrue

LEMMA InitSound == Init => SoundReadings
  <1> SUFFICES ASSUME Init PROVE SoundReadings
    OBVIOUS
  <1>1. Zero \in Bytes
    BY DEF Zero, Bytes
  <1>2. attempts \in Seq(LocalClasses \cup {""})
    BY EmptySeq DEF Init
  <1>3. PlainTypes
    BY <1>1, GuardAssumption DEF Init, PlainTypes, Steps, Both, Classes
  <1>4. TypeOK
    BY <1>2, <1>3 DEF TypeOK, PlainTypes, Classes
  <1>5. Settled /\ ReadingsAreTrue
    BY DEF Init, Settled, ReadingsAreTrue, Measured, Probing
  <1> QED
    BY <1>4, <1>5 DEF SoundReadings

LEMMA NextSound == SoundReadings /\ [Next]_vars => SoundReadings'
  <1> SUFFICES ASSUME SoundReadings, [Next]_vars PROVE SoundReadings'
    OBVIOUS
  <1>1. TypeOK /\ Settled /\ ReadingsAreTrue
    BY DEF SoundReadings
  <1>2. TypeOK'
    BY <1>1, TypeStep
  <1>3. Settled'
    BY <1>1, SettledStep
  <1>4. ReadingsAreTrue'
    BY <1>1, <1>2, ReadingsStep
  <1> QED
    BY <1>2, <1>3, <1>4 DEF SoundReadings

\* What the counters show since a baseline that was read is never more than
\* what the tunnel carried since then, whoever restarts it in between, and
\* exactly that when nobody does (homeCounterDelta). A zero kept for a running
\* tunnel that "wg show" could not read is no such baseline.
THEOREM ReadsWhatWasCarried == Spec => []IInv
  <1>1. SoundReadings => IInv
    BY DEF SoundReadings, IInv
  <1> QED
    BY <1>1, InitSound, NextSound, PTL DEF Spec

-----------------------------------------------------------------------------
(* How a start ends                                                        *)

\* A misread reading shows no surge,
LEMMA NoSurgeInMisread ==
  ASSUME NEW base \in Bytes
  PROVE  EvaluateHomeTrafficGuard(base, Misread) # "surge"
  <1>1. HomeCounterDelta(base.sent, 0) = 0
    BY DEF HomeCounterDelta, Bytes
  <1>2. Surge \in Nat \ {0}
    BY GuardAssumption
  <1>3. ~(0 >= Surge)
    BY <1>2
  <1> QED
    BY <1>1, <1>3 DEF EvaluateHomeTrafficGuard, HomeTrafficRunaway, Misread, Zero

\* and a reading compared with itself neither.
LEMMA NoSurgeInNothing ==
  ASSUME NEW now, now.bytes \in Bytes
  PROVE  EvaluateHomeTrafficGuard(now.bytes, now) # "surge"
  <1>1. HomeCounterDelta(now.bytes.sent, now.bytes.sent) = 0
    BY DEF HomeCounterDelta, Bytes
  <1>2. Surge \in Nat \ {0}
    BY GuardAssumption
  <1>3. ~(0 >= Surge)
    BY <1>2
  <1> QED
    BY <1>1, <1>3 DEF EvaluateHomeTrafficGuard, HomeTrafficRunaway

\* The true counters show a surge since a baseline.
Surging ==
  \/ pc \in Measured /\ EvaluateHomeTrafficGuard(baseline, Seen) = "surge"
  \/ pc \in Probing /\ EvaluateHomeTrafficGuard(probeBase, Seen) = "surge"

\* A baseline that was read when class was set was read before.
KeepsReadings == UNCHANGED <<flow, baseline>> /\ blind' \in {blind, blind \cup {"final"}}

\* The ways into the rollback: a finding that is no class of its own, a
\* surge, or the common class of all the targets.
LEMMA HowItFails ==
  ASSUME [Next]_vars, pc' = "rollback", counters \in Bytes, baseline \in Bytes,
         probeBase \in Bytes
  PROVE  \/ pc = "rollback" /\ UNCHANGED <<class, attempts>> /\ KeepsReadings
         \/ class' \in {"", "guard"}
         \/ class' = "surge" /\ Surging /\ KeepsReadings
         \/ /\ class' = CommonHomeDialFailureClass(attempts)
            /\ Len(attempts) = Targets /\ UNCHANGED attempts
  <1>0. ASSUME NEW base \in Bytes, NEW now \in Readings, NEW next, next # "rollback",
               Guarded(base, now, next)
        PROVE  \/ class' = "guard"
               \/ class' = "surge" /\ EvaluateHomeTrafficGuard(base, Seen) = "surge"
    <2>1. class' = EvaluateHomeTrafficGuard(base, now) /\ class' # ""
      BY <1>0 DEF Guarded, Goto, Fails
    <2>2. CASE now = Seen
      BY <2>1, <2>2, EvaluateClass
    <2>3. CASE now = Misread
      BY <2>1, <2>3, EvaluateClass, NoSurgeInMisread
    <2> QED
      BY <2>2, <2>3 DEF Readings
  <1>1. CASE CheckStarted \/ CheckProtected \/ CheckRouted \/ FinalCheck \/ AwaitHandshake
    <2>1. \/ class' = "guard"
          \/ \E now \in Readings, next \in {"protect", "routes", "handshake", "claim", "probe"} :
               Guarded(baseline, now, next)
      BY <1>1 DEF CheckStarted, CheckProtected, CheckRouted, Check, FinalCheck, AwaitHandshake,
        Readings, Fails
    <2>2. pc \in Measured
      BY <1>1 DEF CheckStarted, CheckProtected, CheckRouted, Check, FinalCheck, AwaitHandshake,
        Measured
    <2>3. KeepsReadings
      BY <1>1 DEF CheckStarted, CheckProtected, CheckRouted, Check, FinalCheck, AwaitHandshake,
        KeepsReadings, traffic, guard
    <2> QED
      BY <1>0, <2>1, <2>2, <2>3 DEF Surging
  <1>3. CASE BeginProbe
    <2>1. \/ class' = "guard"
          \/ \E now \in Readings : Guarded(now.bytes, now, "source")
      BY <1>3 DEF BeginProbe, Fails
    <2>2. ASSUME NEW now \in Readings, Guarded(now.bytes, now, "source")
          PROVE  class' = "guard"
      <3>1. now.bytes \in Bytes
        BY DEF Readings, Seen, Misread, Zero, Bytes
      <3>2. class' = EvaluateHomeTrafficGuard(now.bytes, now) /\ class' # ""
        BY <2>2 DEF Guarded, Goto, Fails
      <3> QED
        BY <3>1, <3>2, EvaluateClass, NoSurgeInNothing
    <2> QED
      BY <2>1, <2>2
  <1>4. CASE CheckReached \/ CheckResolved \/ CheckDialed
    <2>1. pc \in Probing /\ KeepsReadings /\ UNCHANGED attempts
      BY <1>4 DEF CheckReached, CheckResolved, CheckDialed, Probing, KeepsReadings, traffic,
        guard
    <2>2. \/ \E now \in Readings, next \in {"resolved", "unresolved", "verify", "dial"} :
               Guarded(probeBase, now, next)
          \/ Fails("guard") \/ Fails("")
          \/ Fails(CommonHomeDialFailureClass(attempts)) /\ Len(attempts) = Targets
      BY <1>4 DEF CheckReached, CheckResolved, CheckDialed
    <2> QED
      BY <1>0, <2>1, <2>2 DEF Surging, Fails
  <1>5. CASE \/ Apply \/ Prepare \/ EnsureService \/ Protect \/ VerifyRoutes \/ HandshakeTimeout
             \/ FindSource \/ VerifyAgain
    BY <1>5 DEF Apply, Prepare, EnsureService, Protect, VerifyRoutes, HandshakeTimeout,
      FindSource, VerifyAgain, Simple, Goto, Fails
  <1>6. CASE \/ Begin \/ WarpIsOff \/ TakeBaseline \/ Dial \/ Claim \/ RollbackStops
             \/ RollbackUnclean \/ RollbackUnconfirmed \/ UndoStack
    <2>1. pc' # "rollback"
      BY <1>6 DEF Begin, WarpIsOff, TakeBaseline, Dial, Claim, RollbackStops,
        RollbackUnclean, RollbackUnconfirmed, UndoStack, Goto, Answer
    <2> QED
      BY <2>1
  <1>7. CASE Tunnel \/ UNCHANGED vars
    <2>1. /\ pc = "rollback" /\ UNCHANGED <<class, attempts, baseline, blind>>
          /\ UNCHANGED flow
      BY <1>7 DEF Tunnel, Carry, OutsideRestart, vars, guard, traffic, Measured
    <2> QED
      BY <2>1 DEF KeepsReadings
  <1> QED
    BY <1>1, <1>3, <1>4, <1>5, <1>6, <1>7 DEF Next, Proceed

\* A covered baseline that shows a surge has seen one.
LEMMA SurgeReading ==
  ASSUME NEW base \in Bytes, counters \in Bytes, flow \in Bytes, Covers(base),
         EvaluateHomeTrafficGuard(base, Seen) = "surge"
  PROVE  flow.sent >= Surge
  <1>1. HomeCounterDelta(base.sent, counters.sent) >= Surge
    BY DEF EvaluateHomeTrafficGuard, HomeTrafficRunaway, Seen
  <1>2. HomeCounterDelta(base.sent, counters.sent) \in Nat
    BY DEF HomeCounterDelta, Bytes
  <1>3. Surge \in Nat /\ flow.sent \in Nat
    BY GuardAssumption DEF Bytes
  <1>4. HomeCounterDelta(base.sent, counters.sent) <= flow.sent
    BY DEF Covers
  <1> QED
    BY <1>1, <1>2, <1>3, <1>4

LEMMA SurgeStep ==
  ASSUME SoundReadings, SurgeIsReal, [Next]_vars
  PROVE  SurgeIsReal'
  <1> SUFFICES ASSUME pc' = "rollback", class' = "surge", BaselineSeen', ProbeSeen'
               PROVE  flow'.sent >= Surge
    BY DEF SurgeIsReal
  <1>1. /\ counters \in Bytes /\ flow \in Bytes /\ baseline \in Bytes /\ probeBase \in Bytes
        /\ attempts \in Seq(LocalClasses \cup {""})
    BY DEF SoundReadings, TypeOK
  <1>2. /\ pc \in Measured /\ BaselineSeen => Covers(baseline)
        /\ pc \in Probing /\ ProbeSeen => Covers(probeBase)
    BY ReadingsByField DEF SoundReadings
  <1>3. KeepsReadings => BaselineSeen /\ ProbeSeen /\ UNCHANGED flow
    BY DEF KeepsReadings, BaselineSeen, ProbeSeen
  <1>4. CASE pc = "rollback" /\ UNCHANGED class /\ KeepsReadings
    BY <1>3, <1>4 DEF SurgeIsReal
  <1>5. CASE Surging /\ KeepsReadings
    BY <1>1, <1>2, <1>3, <1>5, SurgeReading DEF Surging
  <1>6. CASE class' = CommonHomeDialFailureClass(attempts) /\ Len(attempts) = Targets
    <2>1. class' \in LocalClasses \cup {""}
      BY <1>1, <1>6, CommonClass, GuardAssumption
    <2> QED
      BY <2>1, GuardAssumption
  <1> QED
    BY <1>1, <1>4, <1>5, <1>6, HowItFails

LEMMA LocalFailureStep ==
  ASSUME TypeOK, LocalFailureMeansAllTargets, [Next]_vars
  PROVE  LocalFailureMeansAllTargets'
  <1> SUFFICES ASSUME pc' = "rollback", class' \in LocalClasses
               PROVE  /\ Len(attempts') = Targets
                      /\ \A i \in 1 .. Targets : attempts'[i] = class'
    BY DEF LocalFailureMeansAllTargets
  <1>1. class' \notin {"", "guard", "surge"}
    BY GuardAssumption
  <1>2. CASE pc = "rollback" /\ UNCHANGED <<class, attempts>>
    BY <1>2 DEF LocalFailureMeansAllTargets
  <1>3. CASE /\ class' = CommonHomeDialFailureClass(attempts)
             /\ Len(attempts) = Targets /\ UNCHANGED attempts
    <2>1. \A i \in DOMAIN attempts : attempts[i] = class'
      BY <1>1, <1>3 DEF CommonHomeDialFailureClass
    <2> QED
      BY <1>3, <2>1
  <1>4. counters \in Bytes /\ baseline \in Bytes /\ probeBase \in Bytes
    BY DEF TypeOK
  <1> QED
    BY <1>1, <1>2, <1>3, <1>4, HowItFails

LEMMA ClaimStep ==
  ASSUME SoundReadings, ClaimMeansNoSurge, [Next]_vars
  PROVE  ClaimMeansNoSurge'
  <1> SUFFICES ASSUME pc' = "claim", BaselineSeen', "final" \notin blind', ~restarted'
               PROVE  ~(checked'.sent >= Surge /\ checked'.sent >= Ratio * checked'.received)
    BY DEF ClaimMeansNoSurge, Surged
  <1>1. /\ counters \in Bytes /\ flow \in Bytes /\ baseline \in Bytes
        /\ restarted \in BOOLEAN
    BY DEF SoundReadings, TypeOK
  <1>2. CASE FinalCheck
    <2>1. /\ pc = "final" /\ EvaluateHomeTrafficGuard(baseline, Seen) = "" /\ checked' = flow
          /\ UNCHANGED <<restarted, blind>>
      BY <1>2 DEF FinalCheck, Guarded, Fails, Goto, traffic
    <2>2. Exact
      BY <1>1, <2>1, ReadingsByField DEF SoundReadings, Measured, BaselineSeen
    <2>3. /\ HomeCounterDelta(baseline.sent, counters.sent) = flow.sent
          /\ HomeCounterDelta(baseline.received, counters.received) = flow.received
      BY <1>1, <2>2 DEF Exact, HomeCounterDelta, Bytes
    <2>4. ~HomeTrafficRunaway(flow.sent, flow.received)
      BY <2>1, <2>3 DEF EvaluateHomeTrafficGuard, Seen
    <2>5. flow.sent \in Nat /\ flow.received \in Nat
      BY <1>1 DEF Bytes
    <2>6. CASE flow.received = 0
      BY <2>1, <2>4, <2>6 DEF HomeTrafficRunaway
    <2>7. CASE flow.received # 0
      BY <2>1, <2>4, <2>5, <2>7, RatioByProduct DEF HomeTrafficRunaway
    <2> QED
      BY <2>6, <2>7
  <1>3. CASE Tunnel \/ UNCHANGED vars
    <2>1. pc = "claim" /\ UNCHANGED <<checked, blind>> /\ ~restarted
      BY <1>1, <1>3 DEF Tunnel, Carry, OutsideRestart, vars, guard, traffic
    <2> QED
      BY <2>1 DEF ClaimMeansNoSurge, Surged, BaselineSeen
  <1>4. pc' = "claim" => FinalCheck \/ Tunnel \/ UNCHANGED vars
    BY DEF Next, Proceed, Begin, WarpIsOff, Apply, Prepare, TakeBaseline, EnsureService,
      CheckStarted, CheckProtected, CheckRouted, Check, Guarded, Protect, VerifyRoutes,
      FindSource, VerifyAgain, Simple, AwaitHandshake, HandshakeTimeout, BeginProbe, Dial,
      CheckDialed, CheckReached, CheckResolved, Claim, RollbackStops, RollbackUnclean,
      RollbackUnconfirmed, UndoStack, Goto, Fails, Answer
  <1> QED
    BY <1>2, <1>3, <1>4

\* An aborted start that blames a surge (failHomeNetworkStart after
\* evaluateHomeTrafficGuard) has really sent that much, for every threshold,
\* if its baselines were read: otherwise it may be blamed for what it sent before.
THEOREM BlamedSurgeIsReal == Spec => []SurgeIsReal
  <1>1. Init => SurgeIsReal
    BY DEF Init, SurgeIsReal
  <1>2. SoundReadings /\ SurgeIsReal /\ [Next]_vars => SurgeIsReal'
    BY SurgeStep
  <1> QED
    BY <1>1, <1>2, InitSound, NextSound, PTL DEF Spec

\* A mode that is claimed has carried no surge between its first baseline and
\* its last check, for every threshold and ratio, if both were read and the
\* tunnel was not restarted: a last read that fails with a text passes.
THEOREM ClaimedModeIsCalm == Spec => []ClaimMeansNoSurge
  <1>1. Init => ClaimMeansNoSurge
    BY DEF Init, ClaimMeansNoSurge
  <1>2. SoundReadings /\ ClaimMeansNoSurge /\ [Next]_vars => ClaimMeansNoSurge'
    BY ClaimStep
  <1> QED
    BY <1>1, <1>2, InitSound, NextSound, PTL DEF Spec

\* A class of local failures (commonHomeDialFailureClass) accuses only what
\* failed for every target, for any targets and classes.
THEOREM LocalFailuresAreCommon == Spec => []LocalFailureMeansAllTargets
  <1>1. Init => LocalFailureMeansAllTargets
    BY DEF Init, LocalFailureMeansAllTargets
  <1>2. SoundReadings /\ LocalFailureMeansAllTargets /\ [Next]_vars
          => LocalFailureMeansAllTargets'
    BY LocalFailureStep DEF SoundReadings
  <1> QED
    BY <1>1, <1>2, InitSound, NextSound, PTL DEF Spec

-----------------------------------------------------------------------------
(* HomeConnect implements the home start of TunnelModes                    *)

LEMMA CoarseSteps ==
  /\ pc \in {"baseline", "service"} => CoarseStep = "service"
  /\ pc \in {"started", "protect", "protected", "routes", "routed"} => CoarseStep = "protect"
  /\ pc \in Probing \cup {"probe"} => CoarseStep = "internet"
  /\ pc = "final" => CoarseStep = "verify"
  /\ pc \in {"idle", "disconnect", "apply", "prepare", "handshake", "verify", "claim",
             "rollback", "undoStack"}
       => CoarseStep = pc
  BY DEF CoarseStep, Probing

\* While a start is under way the settings name its tunnel.
Named == pc # "idle" => saved

LEMMA NamedStep ==
  ASSUME Named, [Next]_vars
  PROVE  Named'
  <1>1. Begin => saved'
    BY DEF Begin
  <1>2. ~Begin => saved' = saved /\ (pc = "idle" => pc' = "idle")
    BY DEF Next, Proceed, Tunnel, WarpIsOff, Apply, Prepare, TakeBaseline,
      EnsureService, CheckStarted, CheckProtected, CheckRouted, Check, Protect,
      VerifyRoutes, FindSource, VerifyAgain, Simple, AwaitHandshake, HandshakeTimeout,
      BeginProbe, Dial, CheckDialed, CheckReached, CheckResolved, FinalCheck, Claim,
      RollbackStops, RollbackUnclean, RollbackUnconfirmed, UndoStack, Carry,
      OutsideRestart, vars, host
  <1> QED
    BY <1>1, <1>2 DEF Named

\* The handler of TunnelModes that stands for the start, and the set that
\* holds nothing else: an EXCEPT of several fields is shown to be in such a set.
Coarse(op, step, a, t, res, found, wrong) ==
  [op |-> op, pc |-> step, adapter |-> a, tunnel |-> t, target |-> {}, home |-> "",
   original |-> "MASQUE", changed |-> FALSE, fallback |-> FALSE, attempt |-> 0,
   cause |-> "", result |-> res, before |-> found, trouble |-> wrong]

OnlyCoarse(op, step, a, t, res, found, wrong) ==
  [op : {op}, pc : {step}, adapter : {a}, tunnel : {t}, target : {{}}, home : {""},
   original : {"MASQUE"}, changed : {FALSE}, fallback : {FALSE}, attempt : {0},
   cause : {""}, result : {res}, before : {found}, trouble : {wrong}]

LEMMA CoarseFields ==
  ASSUME NEW op, NEW step, NEW a, NEW t, NEW res, NEW found, NEW wrong, NEW x
  PROVE  x \in OnlyCoarse(op, step, a, t, res, found, wrong)
           <=> x = Coarse(op, step, a, t, res, found, wrong)
  <1>1. Coarse(op, step, a, t, res, found, wrong)
          \in OnlyCoarse(op, step, a, t, res, found, wrong)
    BY DEF Coarse, OnlyCoarse
  <1>2. x \in OnlyCoarse(op, step, a, t, res, found, wrong)
          => x = Coarse(op, step, a, t, res, found, wrong)
    BY DEF Coarse, OnlyCoarse
  <1> QED
    BY <1>1, <1>2

\* The ways in which a step of the coarse start ends
LEMMA CoarseEnds ==
  ASSUME UNCHANGED <<saved, before>>
  PROVE  /\ \A next : CoarseStep' = next /\ UNCHANGED <<result, trouble>> => TM!Goto(next)
         /\ \A next, why :
              CoarseStep' = next /\ UNCHANGED result /\ trouble' = trouble \cup why
                => TM!GotoWith(next, why)
         /\ \A end, why :
              CoarseStep' = "idle" /\ result' = end /\ trouble' = trouble \cup why
                => TM!Answer(end, why)
  <1> DEFINE op == IF saved THEN "homeStart" ELSE "none"
             a == IF saved THEN "adapter" ELSE ""
             t == IF saved THEN "tunnel" ELSE ""
             x == Coarse(op, CoarseStep, a, t, result, before, trouble)
  <1>1. op' = op /\ a' = a /\ t' = t
    OBVIOUS
  <1>2. x' = Coarse(op, CoarseStep', a, t, result', before, trouble')
    BY <1>1 DEF Coarse
  <1>3. /\ \A next : TM!Goto(next) <=> x' = [x EXCEPT !.pc = next]
        /\ \A next, why :
             TM!GotoWith(next, why) <=> x' = [x EXCEPT !.pc = next, !.trouble = trouble \cup why]
        /\ \A end, why :
             TM!Answer(end, why)
               <=> x' = [x EXCEPT !.pc = "idle", !.result = end,
                                     !.trouble = trouble \cup why]
    BY DEF TM!Goto, TM!GotoWith, TM!Answer, Coarse
  <1>4. x \in OnlyCoarse(op, CoarseStep, a, t, result, before, trouble)
    BY CoarseFields
  <1> HIDE DEF op, a, t, x
  <1>5. ASSUME NEW next, CoarseStep' = next, UNCHANGED <<result, trouble>>
        PROVE  TM!Goto(next)
    <2>1. x' = Coarse(op, next, a, t, result, before, trouble)
      BY <1>2, <1>5
    <2>2. [x EXCEPT !.pc = next] \in OnlyCoarse(op, next, a, t, result, before, trouble)
      BY <1>4 DEF OnlyCoarse
    <2>3. [x EXCEPT !.pc = next] = Coarse(op, next, a, t, result, before, trouble)
      BY <2>2, CoarseFields
    <2> QED
      BY <2>1, <2>3, <1>3
  <1>6. ASSUME NEW next, NEW why, CoarseStep' = next, UNCHANGED result,
               trouble' = trouble \cup why
        PROVE  TM!GotoWith(next, why)
    <2>1. x' = Coarse(op, next, a, t, result, before, trouble \cup why)
      BY <1>2, <1>6
    <2>2. [x EXCEPT !.pc = next, !.trouble = trouble \cup why]
            \in OnlyCoarse(op, next, a, t, result, before, trouble \cup why)
      BY <1>4 DEF OnlyCoarse
    <2>3. [x EXCEPT !.pc = next, !.trouble = trouble \cup why]
            = Coarse(op, next, a, t, result, before, trouble \cup why)
      BY <2>2, CoarseFields
    <2> QED
      BY <2>1, <2>3, <1>3
  <1>7. ASSUME NEW end, NEW why, CoarseStep' = "idle", result' = end,
               trouble' = trouble \cup why
        PROVE  TM!Answer(end, why)
    <2>1. x' = Coarse(op, "idle", a, t, end, before, trouble \cup why)
      BY <1>2, <1>7
    <2>2. [x EXCEPT !.pc = "idle", !.result = end, !.trouble = trouble \cup why]
            \in OnlyCoarse(op, "idle", a, t, end, before, trouble \cup why)
      BY <1>4 DEF OnlyCoarse
    <2>3. [x EXCEPT !.pc = "idle", !.result = end, !.trouble = trouble \cup why]
            = Coarse(op, "idle", a, t, end, before, trouble \cup why)
      BY <2>2, CoarseFields
    <2> QED
      BY <2>1, <2>3, <1>3
  <1> QED
    BY <1>5, <1>6, <1>7

LEMMA AtMaps ==
  ASSUME saved, NEW step, CoarseStep = step
  PROVE  TM!At("homeStart", step)
  BY DEF TM!At

LEMMA Stutter ==
  ASSUME UNCHANGED host, UNCHANGED <<up, result>>, CoarseStep' = CoarseStep
  PROVE  UNCHANGED TM!vars
  BY DEF host, TM!vars, TM!daemon, TM!home, TM!beside

\* A look at the tunnel: the start stays in the same coarse step, goes on to
\* the next one, or fails.
LEMMA LookMaps ==
  ASSUME saved, UNCHANGED host, UNCHANGED <<up, result>>, NEW step, NEW next,
         CoarseStep = step, CoarseStep' \in {step, next, "rollback"}
  PROVE  TM!Check(step, next) \/ UNCHANGED TM!vars
  <1>1. CASE CoarseStep' = step
    BY <1>1, Stutter
  <1>2. CASE CoarseStep' \in {next, "rollback"}
    <2>1. TM!Goto(next) \/ TM!Goto("rollback")
      BY <1>2, CoarseEnds DEF host
    <2>2. TM!At("homeStart", step)
      BY AtMaps
    <2> QED
      BY <2>1, <2>2 DEF TM!Check, TM!daemon, TM!home, TM!beside, host
  <1> QED
    BY <1>1, <1>2

\* The steps that change what TunnelModes sees, one of its actions each
LEMMA BeginMaps ==
  ASSUME Begin
  PROVE  TM!BeginHomeStart("adapter", "tunnel")
  <1>1. CoarseStep = "idle" /\ CoarseStep' = "disconnect"
    BY DEF Begin, CoarseStep, Probing
  <1> DEFINE y == [TM!Begin("homeStart", "disconnect", "adapter") EXCEPT !.tunnel = "tunnel"]
             new == Coarse("homeStart", "disconnect", "adapter", "tunnel", "", stack, {})
  <1>2. y \in OnlyCoarse("homeStart", "disconnect", "adapter", "tunnel", "", stack, {})
    BY DEF OnlyCoarse, TM!Begin, TM!NoTask
  <1> HIDE DEF y
  <1>3. y = new
    BY <1>2 DEF OnlyCoarse, Coarse
  <1>4. saved' /\ UNCHANGED <<stack, leased, up, claimed>>
    BY DEF Begin
  <1>5. /\ before' = stack
        /\ result' = ""
        /\ trouble' = {}
    BY DEF Begin
  <1>6. Coarse(IF saved' THEN "homeStart" ELSE "none", CoarseStep',
               IF saved' THEN "adapter" ELSE "", IF saved' THEN "tunnel" ELSE "",
               result', before', trouble') = new
    BY <1>1, <1>4, <1>5
  <1> USE DEF y
  <1>7. TM!OwnedBy("adapter", "tunnel")
    BY DEF TM!OwnedBy, TM!NoRecord
  <1> QED
    BY <1>1, <1>3, <1>4, <1>6, <1>7
      DEF TM!BeginHomeStart, TM!daemon, TM!home, TM!beside, Coarse

LEMMA WarpIsOffMaps ==
  ASSUME saved, WarpIsOff
  PROVE  TM!HomeDisconnect
  <1>1. CoarseStep = "disconnect" /\ CoarseStep' = "apply"
    BY DEF WarpIsOff, Goto, CoarseStep, Probing
  <1>2. TM!Goto("apply") /\ TM!At("homeStart", "disconnect")
    BY <1>1, CoarseEnds, AtMaps DEF WarpIsOff, Goto
  <1> QED
    BY <1>2 DEF WarpIsOff, TM!HomeDisconnect, TM!InProgress, TM!NoMode, TM!home, TM!beside

LEMMA ApplyMaps ==
  ASSUME saved, Apply
  PROVE  TM!HomeApply
  <1>1. CoarseStep = "apply"
    BY DEF Apply, CoarseStep, Probing
  <1>2. TM!At("homeStart", "apply")
    BY <1>1, AtMaps
  <1>3. UNCHANGED <<TM!daemon, TM!home, TM!beside>>
    BY DEF Apply, TM!daemon, TM!home, TM!beside
  <1>4. CASE stack' = OnlyIPv6 /\ Goto("prepare")
    <2>1. CoarseStep' = "prepare"
      BY <1>4 DEF Goto, CoarseStep, Probing
    <2>2. TM!Goto("prepare")
      BY <2>1, <1>4, CoarseEnds DEF Apply, Goto
    <2>3. TM!Apply("adapter", TM!OnlyIPv6)
      BY <1>4 DEF TM!Apply, TM!OnlyIPv6, OnlyIPv6
    <2> QED
      BY <1>2, <1>3, <2>2, <2>3 DEF TM!HomeApply, Apply
  <1>5. CASE stack' \in {stack, OnlyIPv6} /\ Fails("")
    <2>1. CoarseStep' = "rollback"
      BY <1>5 DEF Fails, CoarseStep, Probing
    <2>2. TM!Goto("rollback")
      BY <2>1, <1>5, CoarseEnds DEF Apply, Fails
    <2>3. TM!ApplyFails("adapter", TM!OnlyIPv6)
      BY <1>5 DEF TM!ApplyFails, TM!OnlyIPv6, OnlyIPv6
    <2> QED
      BY <1>2, <1>3, <2>2, <2>3 DEF TM!HomeApply, Apply
  <1> QED
    BY <1>4, <1>5 DEF Apply

LEMMA PrepareMaps ==
  ASSUME saved, Prepare
  PROVE  TM!Prepare
  <1>1. CoarseStep = "prepare" /\ TM!At("homeStart", "prepare")
    BY AtMaps DEF Prepare, CoarseStep, Probing
  <1>2. CASE Goto("baseline")
    <2>1. CoarseStep' = "service"
      BY <1>2 DEF Goto, CoarseStep, Probing
    <2>2. TM!Goto("service")
      BY <2>1, <1>2, CoarseEnds DEF Prepare, Goto
    <2>3. leased'
      BY <1>2 DEF Prepare, Goto, Fails
    <2> QED
      BY <1>1, <2>2, <2>3 DEF TM!Prepare, Prepare, TM!daemon, TM!beside
  <1>3. CASE Fails("")
    <2>1. CoarseStep' = "rollback"
      BY <1>3 DEF Fails, CoarseStep, Probing
    <2>2. TM!Goto("rollback")
      BY <2>1, <1>3, CoarseEnds DEF Prepare, Fails
    <2>3. CASE leased' = leased
      BY <1>1, <2>2, <2>3 DEF TM!Prepare, Prepare, TM!daemon, TM!beside
    <2>4. CASE leased' = TRUE
      BY <1>1, <2>2, <2>4 DEF TM!Prepare, Prepare, TM!daemon, TM!beside
    <2> QED
      BY <1>3, <2>3, <2>4 DEF Prepare, Goto, Fails
  <1> QED
    BY <1>2, <1>3 DEF Prepare

LEMMA EnsureServiceMaps ==
  ASSUME saved, EnsureService
  PROVE  TM!StartService
  <1>1. CoarseStep = "service" /\ TM!At("homeStart", "service")
    BY AtMaps DEF EnsureService, CoarseStep, Probing
  <1>2. CASE up' = TRUE /\ Goto("started")
    <2>1. CoarseStep' = "protect"
      BY <1>2 DEF Goto, CoarseStep, Probing
    <2>2. TM!Goto("protect")
      BY <2>1, <1>2, CoarseEnds DEF EnsureService, Goto, host
    <2> QED
      BY <1>1, <1>2, <2>2 DEF TM!StartService, EnsureService, TM!daemon, TM!beside, host
  <1>3. CASE up' \in {up, TRUE} /\ Fails("")
    <2>1. CoarseStep' = "rollback"
      BY <1>3 DEF Fails, CoarseStep, Probing
    <2>2. TM!Goto("rollback")
      BY <2>1, <1>3, CoarseEnds DEF EnsureService, Fails, host
    <2>3. CASE up' = up
      BY <1>1, <2>2, <2>3 DEF TM!StartService, EnsureService, TM!daemon, TM!beside, host
    <2>4. CASE up' = TRUE
      BY <1>1, <2>2, <2>4 DEF TM!StartService, EnsureService, TM!daemon, TM!beside, host
    <2> QED
      BY <1>3, <2>3, <2>4
  <1> QED
    BY <1>2, <1>3 DEF EnsureService

LEMMA ClaimMaps ==
  ASSUME saved, Claim
  PROVE  TM!Claim
  <1>1. CoarseStep = "claim" /\ CoarseStep' = "idle"
    BY DEF Claim, Answer, CoarseStep, Probing
  <1>2. result' = "ok" /\ trouble' = trouble \cup {} /\ UNCHANGED <<saved, before>>
    BY DEF Claim, Answer
  <1>3. TM!Answer("ok", {}) /\ TM!At("homeStart", "claim")
    BY <1>1, <1>2, CoarseEnds, AtMaps
  <1> QED
    BY <1>3 DEF TM!Claim, TM!At, Claim, TM!daemon, TM!home, TM!beside

LEMMA RollbackMaps ==
  ASSUME saved, RollbackStops \/ RollbackUnclean \/ RollbackUnconfirmed
  PROVE  TM!Rollback
  <1>1. TM!At("homeStart", "rollback")
    <2>1. CoarseStep = "rollback"
      BY DEF RollbackStops, RollbackUnclean, RollbackUnconfirmed, CoarseStep, Probing
    <2> QED
      BY <2>1, AtMaps
  <1>2. UNCHANGED <<TM!daemon, stack, saved, before, TM!beside>>
    BY DEF RollbackStops, RollbackUnclean, RollbackUnconfirmed, TM!daemon, TM!beside
  <1>3. CASE RollbackStops
    <2>1. CoarseStep' = "undoStack"
      BY <1>3 DEF RollbackStops, Goto, CoarseStep, Probing
    <2>2. TM!Goto("undoStack")
      BY <2>1, <1>3, CoarseEnds DEF RollbackStops, Goto
    <2>3. TM!TunnelStopped("tunnel")
      BY <1>3 DEF TM!TunnelStopped, TM!NoRecord, RollbackStops, Stopped
    <2>4. ~claimed'
      BY <1>3 DEF RollbackStops
    <2> QED
      BY <1>1, <1>2, <2>2, <2>3, <2>4 DEF TM!Rollback, TM!NoMode
  <1>4. CASE RollbackUnclean
    <2>1. CoarseStep' = "undoStack"
      BY <1>4 DEF RollbackUnclean, Goto, CoarseStep, Probing
    <2>2. TM!GotoWith("undoStack", {"unclean"})
      BY <2>1, <1>4, CoarseEnds DEF RollbackUnclean, Goto
    <2>3. TM!TunnelUnclean("tunnel")
      BY <1>4 DEF TM!TunnelUnclean, RollbackUnclean, Stopped
    <2>4. ~claimed'
      BY <1>4 DEF RollbackUnclean
    <2> QED
      BY <1>1, <1>2, <2>2, <2>3, <2>4 DEF TM!Rollback, TM!NoMode
  <1>5. CASE RollbackUnconfirmed
    <2>1. CoarseStep' = "idle"
      BY <1>5 DEF RollbackUnconfirmed, Answer, CoarseStep, Probing
    <2>2. TM!Answer("error", {"unrestored"})
      BY <2>1, <1>5, CoarseEnds DEF RollbackUnconfirmed, Answer
    <2>3. TM!TunnelUnconfirmed("tunnel")
      BY <1>5 DEF TM!TunnelUnconfirmed, RollbackUnconfirmed, Stopped
    <2>4. UNCHANGED claimed
      BY <1>5 DEF RollbackUnconfirmed
    <2> QED
      BY <1>1, <1>2, <2>2, <2>3, <2>4 DEF TM!Rollback
  <1> QED
    BY <1>3, <1>4, <1>5

LEMMA UndoStackMaps ==
  ASSUME saved, UndoStack
  PROVE  TM!UndoHomeStack
  <1>1. CoarseStep = "undoStack" /\ CoarseStep' = "idle"
    BY DEF UndoStack, Answer, CoarseStep, Probing
  <1>2. TM!At("homeStart", "undoStack")
    BY <1>1, AtMaps
  <1>3. UNCHANGED <<TM!daemon, TM!home, TM!beside, saved, claimed, before>>
    BY DEF UndoStack, TM!daemon, TM!home, TM!beside
  <1>4. result' = "error"
    BY DEF UndoStack, Answer
  <1>5. CASE stack' = Both /\ UNCHANGED trouble
    <2>1. trouble' = trouble \cup {}
      BY <1>5
    <2>2. TM!Answer("error", {})
      BY <1>1, <1>3, <1>4, <2>1, CoarseEnds
    <2>3. TM!Apply("adapter", TM!Both)
      BY <1>5 DEF TM!Apply, TM!Both, Both
    <2> QED
      BY <1>2, <1>3, <2>2, <2>3 DEF TM!UndoHomeStack
  <1>6. CASE stack' \in {stack, Both} /\ trouble' = trouble \cup {"unrestored"}
    <2>1. TM!Answer("error", {"unrestored"})
      BY <1>1, <1>3, <1>4, <1>6, CoarseEnds
    <2>2. TM!ApplyFails("adapter", TM!Both)
      BY <1>6 DEF TM!ApplyFails, TM!Both, Both
    <2> QED
      BY <1>2, <1>3, <2>1, <2>2 DEF TM!UndoHomeStack
  <1> QED
    BY <1>5, <1>6 DEF UndoStack

\* The steps that look at the tunnel, phase by phase
LEMMA ProtectMaps ==
  ASSUME saved, CheckStarted \/ Protect \/ CheckProtected \/ VerifyRoutes \/ CheckRouted
  PROVE  TM!Protect \/ UNCHANGED TM!vars
  <1>1. UNCHANGED host /\ UNCHANGED <<up, result>>
    BY DEF CheckStarted, Protect, CheckProtected, VerifyRoutes, CheckRouted, Check,
      Simple, Guarded, Goto, Fails
  <1>2. CoarseStep = "protect"
    BY CoarseSteps DEF CheckStarted, Protect, CheckProtected, VerifyRoutes, CheckRouted,
      Check, Simple
  <1>3. pc' \in {"protect", "protected", "routes", "routed", "handshake", "rollback"}
    BY DEF CheckStarted, Protect, CheckProtected, VerifyRoutes, CheckRouted, Check,
      Simple, Guarded, Goto, Fails
  <1>4. CoarseStep' \in {"protect", "handshake", "rollback"}
    BY <1>3 DEF CoarseStep, Probing
  <1> QED
    BY <1>1, <1>2, <1>4, LookMaps DEF TM!Protect

LEMMA HandshakeMaps ==
  ASSUME saved, AwaitHandshake \/ HandshakeTimeout
  PROVE  TM!AwaitHandshake \/ UNCHANGED TM!vars
  <1>1. UNCHANGED host /\ UNCHANGED <<up, result>>
    BY DEF AwaitHandshake, HandshakeTimeout, Guarded, Goto, Fails
  <1>2. CoarseStep = "handshake"
    BY CoarseSteps DEF AwaitHandshake, HandshakeTimeout
  <1>3. pc' \in {"probe", "rollback"}
    BY DEF AwaitHandshake, HandshakeTimeout, Guarded, Goto, Fails
  <1>4. CoarseStep' \in {"handshake", "internet", "rollback"}
    BY <1>3 DEF CoarseStep, Probing
  <1> QED
    BY <1>1, <1>2, <1>4, LookMaps DEF TM!AwaitHandshake

LEMMA ProbeMaps ==
  ASSUME saved, BeginProbe \/ FindSource \/ Dial \/ CheckDialed \/ CheckReached \/ CheckResolved
  PROVE  TM!ProbeInternet \/ UNCHANGED TM!vars
  <1>1. UNCHANGED host /\ UNCHANGED <<up, result>>
    BY DEF BeginProbe, FindSource, Dial, CheckDialed, CheckReached, CheckResolved,
      Simple, Guarded, Goto, Fails
  <1>2. CoarseStep = "internet"
    BY CoarseSteps DEF BeginProbe, FindSource, Dial, CheckDialed, CheckReached,
      CheckResolved, Simple, Probing
  <1>3. pc' \in Probing \cup {"verify", "rollback"}
    BY DEF BeginProbe, FindSource, Dial, CheckDialed, CheckReached, CheckResolved,
      Simple, Guarded, Goto, Fails, Probing
  <1>4. CoarseStep' \in {"internet", "verify", "rollback"}
    BY <1>3 DEF CoarseStep, Probing
  <1> QED
    BY <1>1, <1>2, <1>4, LookMaps DEF TM!ProbeInternet

LEMMA VerifyMaps ==
  ASSUME saved, VerifyAgain \/ FinalCheck
  PROVE  TM!VerifyAgain \/ UNCHANGED TM!vars
  <1>1. UNCHANGED host /\ UNCHANGED <<up, result>>
    BY DEF VerifyAgain, FinalCheck, Simple, Guarded, Goto, Fails
  <1>2. CoarseStep = "verify"
    BY CoarseSteps DEF VerifyAgain, FinalCheck, Simple
  <1>3. pc' \in {"final", "claim", "rollback"}
    BY DEF VerifyAgain, FinalCheck, Simple, Guarded, Goto, Fails
  <1>4. CoarseStep' \in {"verify", "claim", "rollback"}
    BY <1>3 DEF CoarseStep, Probing
  <1> QED
    BY <1>1, <1>2, <1>4, LookMaps DEF TM!VerifyAgain

\* The steps TunnelModes does not see
LEMMA UnseenSteps ==
  ASSUME TakeBaseline \/ Tunnel \/ UNCHANGED vars
  PROVE  UNCHANGED TM!vars
  <1>1. CASE TakeBaseline
    <2>1. CoarseStep = "service" /\ CoarseStep' = "service"
      BY <1>1 DEF TakeBaseline, Goto, CoarseStep, Probing
    <2> QED
      BY <1>1, <2>1, Stutter DEF TakeBaseline, Goto
  <1>2. CASE Tunnel \/ UNCHANGED vars
    <2>1. UNCHANGED host /\ UNCHANGED <<pc, up, result>>
      BY <1>2 DEF Tunnel, Carry, OutsideRestart, vars
    <2>2. CoarseStep' = CoarseStep
      BY <2>1 DEF CoarseStep
    <2> QED
      BY <2>1, <2>2, Stutter
  <1> QED
    BY <1>1, <1>2

LEMMA StepMaps ==
  ASSUME Named, [Next]_vars
  PROVE  [CoarseStart]_TM!vars
  <1>1. CASE Begin
    BY <1>1, BeginMaps DEF CoarseStart
  <1>2. CASE TakeBaseline \/ Tunnel \/ UNCHANGED vars
    BY <1>2, UnseenSteps
  <1>3. CASE Proceed /\ ~TakeBaseline
    <2>1. saved
      BY <1>3 DEF Named, Proceed, WarpIsOff, Apply, Prepare, EnsureService,
        CheckStarted, CheckProtected, CheckRouted, Check, Protect, VerifyRoutes,
        FindSource, VerifyAgain, Simple, AwaitHandshake, HandshakeTimeout, BeginProbe,
        Dial, CheckDialed, CheckReached, CheckResolved, FinalCheck, Claim,
        RollbackStops, RollbackUnclean, RollbackUnconfirmed, UndoStack
    <2> QED
      BY <1>3, <2>1, WarpIsOffMaps, ApplyMaps, PrepareMaps, EnsureServiceMaps,
        ProtectMaps, HandshakeMaps, ProbeMaps, VerifyMaps, ClaimMaps, RollbackMaps,
        UndoStackMaps
        DEF Proceed, CoarseStart
  <1> QED
    BY <1>1, <1>2, <1>3 DEF Next

\* Whatever the peers, the counters and the classes of failures: with all its
\* checks, probes and retries handleHomeNetworkStart takes only steps that
\* the home start of TunnelModes takes, or steps invisible there.
THEOREM RefinesTunnelModes == Spec => ImplementsTunnelModes
  <1>1. Init => Named
    BY DEF Init, Named
  <1>2. Named /\ [Next]_vars => Named'
    BY NamedStep
  <1>3. Init => TM!Init
    <2>1. ASSUME Init
          PROVE  CoarseStep = "idle"
      BY <2>1 DEF Init, CoarseStep, Probing
    <2> QED
      BY <2>1 DEF Init, TM!Init, TM!Protocols, TM!Both, Both, TM!NoRecord, TM!NoMode,
        TM!NoTask, TM!NotLoading
  <1>4. Named /\ [Next]_vars => [CoarseStart]_TM!vars
    BY StepMaps
  <1> QED
    BY <1>1, <1>2, <1>3, <1>4, PTL DEF Spec, ImplementsTunnelModes
=============================================================================
