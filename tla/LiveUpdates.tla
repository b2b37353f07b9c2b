----------------------------- MODULE LiveUpdates -----------------------------
(***************************************************************************)
(* How a change of an environment's flags reaches the streams of its SDKs: *)
(* writes and the signals they send (core_flags/signals.py), the Redis     *)
(* channel (core_flags/notifications.py) and sdk_stream's loop             *)
(* (sdk_api/views.py, sdk_api/payloads.py).                                *)
(*                                                                         *)
(* What a stream serves is read by two queries, first the active overrides *)
(* and then the flags, so that the tables are two counters here: how many  *)
(* changes of each have been committed.                                    *)
(***************************************************************************)
EXTENDS Naturals

CONSTANTS
  Streams,    \* connections of SDKs
  Writers,    \* the server's workers
  WriteKinds, \* the kinds of writes they make
  Redis,      \* "absent": REDIS_URL is not set
  MaxWrites   \* bound on the changes of a behaviour, and on waiting messages

(* A lone save commits and then sends post_save.  Django's delete, and the  *)
(* recording of an override, send their signals inside a transaction.       *)
(* Nothing listens to Variant.                                              *)
SignalAfterCommit  == {"save", "lift"}
SignalBeforeCommit == {"delete", "override"}
NoSignal           == {"variants"}
AllKinds           == SignalAfterCommit \cup SignalBeforeCommit \cup NoSignal

ASSUME LiveUpdatesAssumption ==
  /\ WriteKinds \subseteq AllKinds
  /\ Redis \in {"absent", "reliable", "unreliable"}
  /\ MaxWrites \in Nat

VARIABLES
  version,  \* what is committed
  writer,   \* what each worker is doing
  stream,   \* the generator of each connection
  mail      \* messages its subscription has not yielded yet

vars == <<version, writer, stream, mail>>

Version == [overrides : Nat, flags : Nat]
Zero == [overrides |-> 0, flags |-> 0]

Covers(v, w) == v.overrides >= w.overrides /\ v.flags >= w.flags

Writer == [pc : {"idle", "writing", "committed"}, kind : AllKinds \cup {"none"}]
NotWriting == [pc |-> "idle", kind |-> "none"]

(* owed is history: the latest change, of a kind announced after its        *)
(* commit, that was committed while it was subscribed; nothing once the     *)
(* last message that would have told of it was lost.                        *)
Stream ==
  [pc    : {"closed", "overrides", "flags", "subscribing", "waiting", "polling"},
   mode  : {"new", "subscribed", "unsubscribed"},
   read  : Version,   \* current_flags, while it is being read
   last  : Version,   \* last_flags: what the SDK was sent
   owed  : Version]

Closed == [pc |-> "closed", mode |-> "new", read |-> Zero, last |-> Zero, owed |-> Zero]

TypeOK ==
  /\ version \in Version
  /\ writer \in [Writers -> Writer]
  /\ stream \in [Streams -> Stream]
  /\ mail \in [Streams -> Nat]

-----------------------------------------------------------------------------
Subscribed(s) == stream[s].mode = "subscribed"

(* Something will still wake the stream. *)
Notice(s) == mail[s] > 0 \/ \E w \in Writers : writer[w].pc = "committed"

(* The change a write of this kind makes *)
Changed(kind) ==
  IF kind \in {"lift", "override"}
  THEN [version EXCEPT !.overrides = @ + 1]
  ELSE [version EXCEPT !.flags = @ + 1]

(* mutant: only streams that wait at this moment are told *)
PublishedToWaiting ==
  [s \in Streams |-> IF stream[s].pc = "waiting" THEN mail[s] + 1 ELSE mail[s]]

(* publish_flags_changed: one message to every subscription there is, and   *)
(* none where Redis is absent; where it is down the failure is swallowed.   *)
Published == [s \in Streams |-> IF Subscribed(s) THEN mail[s] + 1 ELSE mail[s]]

Begin(w, kind) ==
  /\ writer[w] = NotWriting
  /\ version.overrides + version.flags < MaxWrites
  /\ \A s \in Streams : mail[s] < MaxWrites
  /\ writer' = [writer EXCEPT ![w] = [pc |-> "writing", kind |-> kind]]
  /\ \/ kind \in SignalBeforeCommit /\ Redis # "absent" /\ mail' = Published
     \/ (kind \notin SignalBeforeCommit \/ Redis # "reliable") /\ UNCHANGED mail
  /\ UNCHANGED <<version, stream>>

Commit(w) ==
  /\ writer[w].pc = "writing"
  /\ version' = Changed(writer[w].kind)
  /\ stream' = [s \in Streams |->
       IF Subscribed(s) /\ writer[w].kind \in SignalAfterCommit
       THEN [stream[s] EXCEPT !.owed = version'] ELSE stream[s]]
  /\ writer' = [writer EXCEPT ![w] =
       IF writer[w].kind \in SignalAfterCommit THEN [@ EXCEPT !.pc = "committed"] ELSE NotWriting]
  /\ UNCHANGED mail

(* What nothing will tell of any more is not owed. *)
Forgive == stream' = [s \in Streams |-> IF Notice(s)' THEN stream[s] ELSE [stream[s] EXCEPT !.owed = Zero]]

SendSignal(w) ==
  /\ writer[w].pc = "committed"
  /\ writer' = [writer EXCEPT ![w] = NotWriting]
  /\ \/ Redis # "absent" /\ mail' = Published /\ UNCHANGED stream
     \/ Redis # "reliable" /\ UNCHANGED mail /\ Forgive
  /\ UNCHANGED version

(* A write is refused or rolled back, after its signal or before. *)
Rollback(w) ==
  /\ writer[w].pc = "writing"
  /\ writer' = [writer EXCEPT ![w] = NotWriting]
  /\ UNCHANGED <<version, stream, mail>>

-----------------------------------------------------------------------------
(* event_stream *)

Connect(s) ==
  /\ stream[s].pc = "closed"
  /\ stream' = [stream EXCEPT ![s].pc = "overrides"]
  /\ UNCHANGED <<version, writer, mail>>

(* serialize_environment_flags: active_overrides_by_flag, then the flags *)
ReadOverrides(s) ==
  /\ stream[s].pc = "overrides"
  /\ stream' = [stream EXCEPT ![s] =
       [@ EXCEPT !.pc = "flags", !.read = [overrides |-> version.overrides, flags |-> 0]]]
  /\ UNCHANGED <<version, writer, mail>>

Wait(s) ==
  CASE stream[s].mode = "new" -> "subscribing"
    [] stream[s].mode = "subscribed" -> "waiting"
    [] stream[s].mode = "unsubscribed" -> "polling"

(* mutant: a read also drops the messages that arrived meanwhile *)
ReadFlagsDroppingMail(s) ==
  /\ stream[s].pc = "flags"
  /\ stream' = [stream EXCEPT ![s] =
       [@ EXCEPT !.pc = Wait(s), !.read = Zero,
                 !.last = [overrides |-> stream[s].read.overrides, flags |-> version.flags]]]
  /\ mail' = [mail EXCEPT ![s] = 0]
  /\ UNCHANGED <<version, writer>>

(* What was read is sent, or is what was sent before. *)
ReadFlags(s) ==
  /\ stream[s].pc = "flags"
  /\ stream' = [stream EXCEPT ![s] =
       [@ EXCEPT !.pc = Wait(s), !.read = Zero,
                 !.last = [overrides |-> stream[s].read.overrides, flags |-> version.flags]]]
  /\ UNCHANGED <<version, writer, mail>>

(* asubscribe_to_flags: None where Redis is absent or cannot be reached *)
Subscribe(s) ==
  /\ stream[s].pc = "subscribing"
  /\ \/ /\ Redis # "absent"
        /\ stream' = [stream EXCEPT ![s] = [@ EXCEPT !.pc = "waiting", !.mode = "subscribed"]]
     \/ /\ Redis # "reliable"
        /\ stream' = [stream EXCEPT ![s] = [@ EXCEPT !.pc = "polling", !.mode = "unsubscribed"]]
  /\ UNCHANGED <<version, writer, mail>>

(* mutant: the loop goes on without a message *)
WakeUnasked(s) ==
  /\ stream[s].pc = "waiting"
  /\ stream' = [stream EXCEPT ![s].pc = "overrides"]
  /\ mail' = [mail EXCEPT ![s] = @ - 1]
  /\ UNCHANGED <<version, writer>>

(* subscription.wait reports a change.  Without one it reports nothing, and *)
(* a keepalive is sent: nothing is read.                                    *)
Wake(s) ==
  /\ stream[s].pc = "waiting"
  /\ mail[s] > 0
  /\ stream' = [stream EXCEPT ![s].pc = "overrides"]
  /\ mail' = [mail EXCEPT ![s] = @ - 1]
  /\ UNCHANGED <<version, writer>>

(* mutant: a poll finds nothing to read *)
PollSendsKeepalive(s) ==
  /\ stream[s].pc = "polling"
  /\ UNCHANGED vars

(* Without a subscription the loop asks every POLL_SECONDS. *)
Poll(s) ==
  /\ stream[s].pc = "polling"
  /\ stream' = [stream EXCEPT ![s].pc = "overrides"]
  /\ UNCHANGED <<version, writer, mail>>

(* The subscription's connection breaks: wait logs it and reports nothing,  *)
(* and the client subscribes again when it is next asked.                   *)
LoseMessages(s) ==
  /\ Redis = "unreliable"
  /\ Subscribed(s) /\ mail[s] > 0
  /\ mail' = [mail EXCEPT ![s] = 0]
  /\ UNCHANGED <<version, writer>>
  /\ Forgive

(* The client goes away; the generator's finally closes the subscription. *)
Disconnect(s) ==
  /\ stream[s].pc # "closed"
  /\ stream' = [stream EXCEPT ![s] = Closed]
  /\ mail' = [mail EXCEPT ![s] = 0]
  /\ UNCHANGED <<version, writer>>

-----------------------------------------------------------------------------
Init ==
  /\ version = Zero
  /\ writer = [w \in Writers |-> NotWriting]
  /\ stream = [s \in Streams |-> Closed]
  /\ mail = [s \in Streams |-> 0]

Turn(s) == ReadOverrides(s) \/ ReadFlags(s) \/ Subscribe(s) \/ Wake(s) \/ Poll(s)

Next ==
  \/ \E w \in Writers :
       \/ \E kind \in WriteKinds : Begin(w, kind)
       \/ Commit(w) \/ SendSignal(w) \/ Rollback(w)
  \/ \E s \in Streams : Connect(s) \/ Turn(s) \/ LoseMessages(s) \/ Disconnect(s)

Spec == Init /\ [][Next]_vars

(* The event loop comes back to every generator that can go on, and a       *)
(* worker that committed sends its signal.                                  *)
FairSpec ==
  /\ Spec
  /\ \A s \in Streams : WF_vars(Turn(s))
  /\ \A w \in Writers : WF_vars(SendSignal(w))

-----------------------------------------------------------------------------
(* What keeps a subscribed stream from sleeping on a change. *)

StreamInv(s) ==
  /\ Covers(version, stream[s].owed)
  /\ ~Subscribed(s) => stream[s].owed = Zero
  /\ stream[s].pc = "subscribing" => ~Subscribed(s)
  /\ stream[s].pc = "waiting" => Covers(stream[s].last, stream[s].owed) \/ Notice(s)
  /\ stream[s].pc = "flags" => stream[s].read.overrides >= stream[s].owed.overrides \/ Notice(s)

WakeupInv ==
  /\ TypeOK
  /\ \A w \in Writers : writer[w].pc = "writing" => writer[w].kind \in WriteKinds
  /\ \A s \in Streams : StreamInv(s)

-----------------------------------------------------------------------------
(* Properties *)

(* A stream that waits and was not told has nothing to be told: no wake-up  *)
(* is lost between a change, its message and the reads it starts            *)
(* (sdk_stream's "Woken by a write rather than asking").                    *)
NoLostWakeup ==
  \A s \in Streams :
    stream[s].pc = "waiting" /\ ~Notice(s) => Covers(stream[s].last, stream[s].owed)

(* A change that is announced after its commit (a lone save, a lift) is     *)
(* sent to each stream that was subscribed when it was committed, unless    *)
(* Redis lost the last message that told of it.                             *)
ReachesSubscribers ==
  \A s \in Streams :
    ~Covers(stream[s].last, stream[s].owed)
      ~> Covers(stream[s].last, stream[s].owed) \/ stream[s].pc = "closed"

(* A stream without a subscription comes to serve what is committed,        *)
(* whatever happens to Redis: asking on an interval is its fallback         *)
(* (sdk_stream's comment).                                                  *)
PollersCatchUp ==
  \A s \in Streams :
    stream[s].mode = "unsubscribed" ~> stream[s].last = version \/ stream[s].pc = "closed"

(* A connected stream comes to serve what is committed.                     *)
CatchesUp ==
  \A s \in Streams :
    stream[s].pc # "closed" ~> stream[s].last = version \/ stream[s].pc = "closed"
=============================================================================
