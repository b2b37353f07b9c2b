-------------------------- MODULE LiveUpdatesProofs --------------------------
(* That no stream sleeps on a change it should have been woken for, for     *)
(* every set of streams and workers, any number of writes of any kind and   *)
(* whatever Redis does.                                                     *)
EXTENDS LiveUpdates, TLAPS

LEMMA InitWakeup == Init => WakeupInv
BY DEF Init, WakeupInv, StreamInv, Notice, TypeOK, Version, Writer, Stream, Closed, Zero, NotWriting, Covers, Subscribed

(* What ReadOverrides(s) leaves in the generator's locals. *)
LEMMA ReadOverridesStep ==
  ASSUME stream \in [Streams -> Stream], version \in Version, NEW s \in Streams, ReadOverrides(s)
  PROVE  /\ stream[s].pc = "overrides"
         /\ stream'[s].pc = "flags" /\ stream'[s].mode = stream[s].mode
         /\ stream'[s].read = [overrides |-> version.overrides, flags |-> 0]
         /\ stream'[s].last = stream[s].last
         /\ stream'[s].owed = stream[s].owed
         /\ stream' \in [Streams -> Stream]
         /\ \A q \in Streams \ {s} : stream'[q] = stream[q]
         /\ UNCHANGED <<version, writer, mail>>
<1>. DEFINE reading == [stream[s] EXCEPT
                          !.pc = "flags", !.read = [overrides |-> version.overrides, flags |-> 0]]
<1>1. stream[s] \in Stream OBVIOUS
<1>2. [overrides |-> version.overrides, flags |-> 0] \in Version BY DEF Version
<1>3. reading \in Stream BY <1>1, <1>2 DEF Stream
<1>4. /\ reading.pc = "flags" /\ reading.mode = stream[s].mode
      /\ reading.read = [overrides |-> version.overrides, flags |-> 0]
      /\ reading.last = stream[s].last /\ reading.owed = stream[s].owed
  BY <1>1 DEF Stream
<1>5. /\ stream[s].pc = "overrides" /\ stream' = [stream EXCEPT ![s] = reading]
      /\ UNCHANGED <<version, writer, mail>>
  BY DEF ReadOverrides
<1>. HIDE DEF reading
<1>. QED BY <1>3, <1>4, <1>5

(* What ReadFlags(s) leaves in the generator's locals. *)
LEMMA ReadFlagsStep ==
  ASSUME stream \in [Streams -> Stream], version \in Version, NEW s \in Streams, ReadFlags(s)
  PROVE  /\ stream[s].pc = "flags"
         /\ stream'[s].pc = Wait(s) /\ stream'[s].mode = stream[s].mode
         /\ stream'[s].read = Zero
         /\ stream'[s].last = [overrides |-> stream[s].read.overrides, flags |-> version.flags]
         /\ stream'[s].owed = stream[s].owed
         /\ stream' \in [Streams -> Stream]
         /\ \A q \in Streams \ {s} : stream'[q] = stream[q]
         /\ UNCHANGED <<version, writer, mail>>
<1>. DEFINE sent == [stream[s] EXCEPT
                       !.pc = Wait(s), !.read = Zero,
                       !.last = [overrides |-> stream[s].read.overrides, flags |-> version.flags]]
<1>1. stream[s] \in Stream OBVIOUS
<1>2. Wait(s) \in {"closed", "overrides", "flags", "subscribing", "waiting", "polling"}
  BY <1>1 DEF Stream, Wait
<1>3. Zero \in Version BY DEF Zero, Version
<1>4. [overrides |-> stream[s].read.overrides, flags |-> version.flags] \in Version
  BY <1>1 DEF Stream, Version
<1>5. sent \in Stream BY <1>1, <1>2, <1>3, <1>4 DEF Stream
<1>6. /\ sent.pc = Wait(s) /\ sent.mode = stream[s].mode /\ sent.read = Zero
      /\ sent.last = [overrides |-> stream[s].read.overrides, flags |-> version.flags]
      /\ sent.owed = stream[s].owed
  BY <1>1 DEF Stream
<1>7. /\ stream[s].pc = "flags" /\ stream' = [stream EXCEPT ![s] = sent]
      /\ UNCHANGED <<version, writer, mail>>
  BY DEF ReadFlags
<1>. HIDE DEF sent
<1>. QED BY <1>5, <1>6, <1>7

(* What a commit leaves in the locals of every generator. *)
LEMMA CommitStep ==
  ASSUME stream \in [Streams -> Stream], version' \in Version, NEW w \in Writers, Commit(w),
         writer[w].kind \in SignalAfterCommit
  PROVE  /\ \A s \in Streams :
              /\ stream'[s].pc = stream[s].pc /\ stream'[s].mode = stream[s].mode
              /\ stream'[s].read = stream[s].read /\ stream'[s].last = stream[s].last
              /\ stream'[s].owed = IF Subscribed(s) THEN version' ELSE stream[s].owed
         /\ \A s \in Streams : stream'[s] \in Stream
         /\ stream' = [s \in Streams |-> stream'[s]]
<1>1. stream' = [s \in Streams |-> IF Subscribed(s) THEN [stream[s] EXCEPT !.owed = version'] ELSE stream[s]]
  BY DEF Commit
<1>2. ASSUME NEW s \in Streams
      PROVE  /\ stream'[s].pc = stream[s].pc /\ stream'[s].mode = stream[s].mode
             /\ stream'[s].read = stream[s].read /\ stream'[s].last = stream[s].last
             /\ stream'[s].owed = IF Subscribed(s) THEN version' ELSE stream[s].owed
             /\ stream'[s] \in Stream
  <2>1. stream[s] \in Stream OBVIOUS
  <2>2. /\ [stream[s] EXCEPT !.owed = version'] \in Stream
        /\ [stream[s] EXCEPT !.owed = version'].pc = stream[s].pc
        /\ [stream[s] EXCEPT !.owed = version'].mode = stream[s].mode
        /\ [stream[s] EXCEPT !.owed = version'].read = stream[s].read
        /\ [stream[s] EXCEPT !.owed = version'].last = stream[s].last
        /\ [stream[s] EXCEPT !.owed = version'].owed = version'
    BY <2>1 DEF Stream
  <2>3. CASE Subscribed(s)
    <3>1. stream'[s] = [stream[s] EXCEPT !.owed = version'] BY <1>1, <2>3
    <3>. QED BY <3>1, <2>2, <2>3
  <2>4. CASE ~Subscribed(s)
    <3>1. stream'[s] = stream[s] BY <1>1, <2>4
    <3>. QED BY <3>1, <2>1, <2>4
  <2>. QED BY <2>3, <2>4
<1>. QED BY <1>1, <1>2

(* What Subscribe(s) leaves in the generator's locals. *)
LEMMA SubscribeStep ==
  ASSUME stream \in [Streams -> Stream], version \in Version, NEW s \in Streams, Subscribe(s)
  PROVE  /\ stream[s].pc = "subscribing"
         /\ \/ stream'[s].pc = "waiting" /\ stream'[s].mode = "subscribed"
            \/ stream'[s].pc = "polling" /\ stream'[s].mode = "unsubscribed"
         /\ stream'[s].read = stream[s].read
         /\ stream'[s].last = stream[s].last
         /\ stream'[s].owed = stream[s].owed
         /\ stream' \in [Streams -> Stream]
         /\ \A q \in Streams \ {s} : stream'[q] = stream[q]
         /\ UNCHANGED <<version, writer, mail>>
<1>1. stream[s].pc = "subscribing" /\ UNCHANGED <<version, writer, mail>> BY DEF Subscribe
<1>2. CASE stream' = [stream EXCEPT ![s] = [stream[s] EXCEPT !.pc = "waiting", !.mode = "subscribed"]]
  BY <1>1, <1>2 DEF Stream
<1>3. CASE stream' = [stream EXCEPT ![s] = [stream[s] EXCEPT !.pc = "polling", !.mode = "unsubscribed"]]
  BY <1>1, <1>3 DEF Stream
<1>. QED BY <1>1, <1>2, <1>3 DEF Subscribe

(* What a message leaves in the generator's locals. *)
LEMMA WakeStep ==
  ASSUME stream \in [Streams -> Stream], NEW s \in Streams, Wake(s)
  PROVE  /\ stream' \in [Streams -> Stream]
         /\ stream'[s].pc = "overrides" /\ stream'[s].mode = stream[s].mode
         /\ stream'[s].owed = stream[s].owed
         /\ \A q \in Streams \ {s} : stream'[q] = stream[q]
<1>. DEFINE woken == [stream[s] EXCEPT !.pc = "overrides"]
<1>1. stream[s] \in Stream OBVIOUS
<1>2. woken \in Stream BY <1>1 DEF Stream
<1>3. woken.pc = "overrides" /\ woken.mode = stream[s].mode /\ woken.owed = stream[s].owed
  BY <1>1 DEF Stream
<1>4. stream' = [stream EXCEPT ![s] = woken] BY DEF Wake
<1>. HIDE DEF woken
<1>. QED BY <1>2, <1>3, <1>4

(* A lost message leaves each stream as it was, but for what it is owed. *)
LEMMA ForgiveStep ==
  ASSUME stream \in [Streams -> Stream], Forgive
  PROVE  /\ stream' \in [Streams -> Stream]
         /\ \A s \in Streams :
              /\ stream'[s].pc = stream[s].pc /\ stream'[s].mode = stream[s].mode
              /\ stream'[s].read = stream[s].read /\ stream'[s].last = stream[s].last
              /\ stream'[s].owed = IF Notice(s)' THEN stream[s].owed ELSE Zero
<1>1. \A s \in Streams : stream'[s] = IF Notice(s)' THEN stream[s] ELSE [stream[s] EXCEPT !.owed = Zero]
  BY DEF Forgive
<1>2. ASSUME NEW s \in Streams PROVE stream'[s] \in Stream
  <2>1. [stream[s] EXCEPT !.owed = Zero] \in Stream BY DEF Stream, Version, Zero
  <2>2. stream[s] \in Stream OBVIOUS
  <2>. QED BY <1>1, <2>1, <2>2
<1>3. stream' = [s \in Streams |-> stream'[s]] BY DEF Forgive
<1>. QED BY <1>1, <1>2, <1>3 DEF Stream

LEMMA StepWakeup == ASSUME WakeupInv, [Next]_vars PROVE WakeupInv'
<1>. USE DEF WakeupInv, StreamInv, TypeOK, Version, Writer, Stream, Zero, Covers, Subscribed, Notice,
         AllKinds, SignalAfterCommit, SignalBeforeCommit, NoSignal
<1>1. CASE UNCHANGED vars BY <1>1 DEF vars
<1>2. ASSUME NEW w \in Writers, NEW kind \in WriteKinds, Begin(w, kind) PROVE WakeupInv'
  <2>1. /\ writer' \in [Writers -> Writer] /\ writer'[w].kind \in WriteKinds
        /\ \A v \in Writers \ {w} : writer'[v] = writer[v]
        /\ writer[w].pc # "committed"
    BY <1>2, LiveUpdatesAssumption DEF Begin, NotWriting
  <2>2. \A s \in Streams : mail'[s] \in Nat /\ mail'[s] >= mail[s]
    BY <1>2 DEF Begin, Published
  <2>. QED BY <1>2, <2>1, <2>2 DEF Begin, Published
<1>3. ASSUME NEW w \in Writers, Commit(w) PROVE WakeupInv'
  <2>1. version' \in Version /\ Covers(version', version)
    BY <1>3 DEF Commit, Changed
  <2>2. /\ writer' \in [Writers -> Writer]
        /\ writer[w].kind \in SignalAfterCommit => writer'[w].pc = "committed"
        /\ writer'[w].pc # "writing"
        /\ \A v \in Writers \ {w} : writer'[v] = writer[v]
        /\ writer[w].pc = "writing"
    BY <1>3 DEF Commit, NotWriting
  <2>3. \A s \in Streams : Notice(s) => Notice(s)' BY <1>3, <2>2 DEF Commit
  <2>4. CASE writer[w].kind \in SignalAfterCommit
    <3>1. /\ \A s \in Streams : /\ stream'[s].pc = stream[s].pc /\ stream'[s].mode = stream[s].mode
                                /\ stream'[s].read = stream[s].read /\ stream'[s].last = stream[s].last
                                /\ stream'[s].owed = IF Subscribed(s) THEN version' ELSE stream[s].owed
          /\ \A s \in Streams : stream'[s] \in Stream
          /\ stream' = [s \in Streams |-> stream'[s]]
      <4>1. stream \in [Streams -> Stream] OBVIOUS
      <4>. HIDE DEF WakeupInv, StreamInv, TypeOK, Version, Writer, Stream, Zero, Covers, Subscribed,
                Notice, AllKinds, SignalAfterCommit, SignalBeforeCommit, NoSignal
      <4>. QED BY <1>3, <2>1, <2>4, <4>1, CommitStep
    <3>2. \A s \in Streams : Notice(s)' BY <2>2, <2>4
    <3>. QED BY <1>3, <2>1, <2>2, <2>4, <3>1, <3>2 DEF Commit
  <2>5. CASE writer[w].kind \notin SignalAfterCommit
    <3>1. stream' = stream BY <1>3, <2>5 DEF Commit
    <3>. QED BY <1>3, <2>1, <2>2, <2>3, <3>1 DEF Commit
  <2>. QED BY <2>4, <2>5
<1>4. ASSUME NEW w \in Writers, SendSignal(w) PROVE WakeupInv'
  <2>1. writer' \in [Writers -> Writer] /\ \A v \in Writers : writer'[v].pc = "writing" => writer'[v] = writer[v]
    BY <1>4 DEF SendSignal, NotWriting
  <2>2. CASE mail' = Published /\ UNCHANGED stream
    BY <1>4, <2>1, <2>2 DEF SendSignal, Published
  <2>3. CASE UNCHANGED mail /\ Forgive
    BY <1>4, <2>1, <2>3, ForgiveStep DEF SendSignal
  <2>. QED BY <1>4, <2>2, <2>3 DEF SendSignal
<1>5. ASSUME NEW w \in Writers, Rollback(w) PROVE WakeupInv'
  BY <1>5 DEF Rollback, NotWriting
<1>6. ASSUME NEW s \in Streams, Connect(s) PROVE WakeupInv'
  BY <1>6 DEF Connect
<1>7. ASSUME NEW s \in Streams, ReadOverrides(s) PROVE WakeupInv'
  <2>0. (\A q \in Streams \ {s} : stream'[q] = stream[q]) /\ UNCHANGED <<version, writer, mail>>
    BY <1>7, ReadOverridesStep
  <2>1. \A q \in Streams \ {s} : StreamInv(q)' BY <2>0
  <2>2. StreamInv(s)' BY <1>7, ReadOverridesStep
  <2>. QED BY <1>7, ReadOverridesStep, <2>1, <2>2
<1>8. ASSUME NEW s \in Streams, ReadFlags(s) PROVE WakeupInv'
  <2>0. /\ stream' \in [Streams -> Stream] /\ UNCHANGED <<version, writer, mail>>
        /\ \A q \in Streams \ {s} : stream'[q] = stream[q]
    BY <1>8, ReadFlagsStep
  <2>1. \A q \in Streams \ {s} : StreamInv(q)' BY <2>0
  <2>2. StreamInv(s)'
    <3>0. stream'[s].mode = stream[s].mode /\ stream'[s].owed = stream[s].owed /\ stream[s].pc = "flags"
      BY <1>8, ReadFlagsStep
    <3>l. stream'[s].last = [overrides |-> stream[s].read.overrides, flags |-> version.flags]
      BY <1>8, ReadFlagsStep
    <3>1. /\ stream'[s].last.overrides = stream[s].read.overrides
          /\ stream'[s].last.flags = version.flags
      BY <3>l
    <3>2. stream'[s].pc = "subscribing" => stream[s].mode = "new"
      BY <1>8, ReadFlagsStep DEF Wait
    <3>3. stream'[s].pc \in {"subscribing", "waiting", "polling"}
      BY <1>8, ReadFlagsStep DEF Wait
    <3>. QED BY <2>0, <3>0, <3>1, <3>2, <3>3
  <2>. QED BY <2>0, <2>1, <2>2
<1>9. ASSUME NEW s \in Streams, Subscribe(s) PROVE WakeupInv'
  <2>0. (\A q \in Streams \ {s} : stream'[q] = stream[q]) /\ UNCHANGED <<version, writer, mail>>
    BY <1>9, SubscribeStep
  <2>1. \A q \in Streams \ {s} : StreamInv(q)' BY <2>0
  <2>2. StreamInv(s)' BY <1>9, SubscribeStep
  <2>. QED BY <1>9, SubscribeStep, <2>1, <2>2
<1>10. ASSUME NEW s \in Streams, Wake(s) PROVE WakeupInv'
  <2>1. /\ stream' \in [Streams -> Stream]
        /\ stream'[s].pc = "overrides" /\ stream'[s].mode = stream[s].mode
        /\ stream'[s].owed = stream[s].owed
        /\ \A q \in Streams \ {s} : stream'[q] = stream[q]
    <3>1. stream \in [Streams -> Stream] OBVIOUS
    <3>. HIDE DEF WakeupInv, StreamInv, TypeOK, Version, Writer, Stream, Zero, Covers, Subscribed,
              Notice, AllKinds, SignalAfterCommit, SignalBeforeCommit, NoSignal
    <3>. QED BY <1>10, <3>1, WakeStep
  <2>2. /\ mail' \in [Streams -> Nat] /\ \A q \in Streams \ {s} : mail'[q] = mail[q]
        /\ UNCHANGED <<version, writer>>
    BY <1>10 DEF Wake
  <2>3. StreamInv(s)' BY <2>1, <2>2
  <2>4. \A q \in Streams \ {s} : StreamInv(q)' BY <2>1, <2>2
  <2>. QED BY <2>1, <2>2, <2>3, <2>4
<1>11. ASSUME NEW s \in Streams, Poll(s) PROVE WakeupInv'
  BY <1>11 DEF Poll
<1>12. ASSUME NEW s \in Streams, LoseMessages(s) PROVE WakeupInv'
  <2>1. mail' \in [Streams -> Nat] /\ UNCHANGED <<version, writer>> /\ Forgive
    BY <1>12 DEF LoseMessages
  <2>. QED BY <2>1, ForgiveStep
<1>13. ASSUME NEW s \in Streams, Disconnect(s) PROVE WakeupInv'
  BY <1>13 DEF Disconnect, Closed
<1>. QED
  BY <1>1, <1>2, <1>3, <1>4, <1>5, <1>6, <1>7, <1>8, <1>9, <1>10, <1>11, <1>12, <1>13 DEF Next, Turn

(* Every reachable state is well-typed, whatever Redis loses. *)
THEOREM TypeCorrect == Spec => []TypeOK
<1>1. WakeupInv => TypeOK BY DEF WakeupInv
<1>. QED BY <1>1, InitWakeup, StepWakeup, PTL DEF Spec

(* A stream that waits, with no message on its way and no worker about to  *)
(* send one, was sent every change it is owed.                              *)
THEOREM WakeupsKept == Spec => []NoLostWakeup
<1>1. WakeupInv => NoLostWakeup BY DEF WakeupInv, StreamInv, NoLostWakeup
<1>. QED BY <1>1, InitWakeup, StepWakeup, PTL DEF Spec
=============================================================================
