----------------------- MODULE CommandLifecycleProofs -----------------------
(***************************************************************************)
(* Theorems about CommandLifecycle, for all powers, requests, report and   *)
(* packet groupings and any number of faults.                              *)
(***************************************************************************)
EXTENDS CommandLifecycle, TLAPS

-----------------------------------------------------------------------------
(* Operators: what publishing does to a state s = [c, sent] *)

States == [c : Controllers, sent : Messages]

\* Everything of the controller but the publish cache and the gate.
Agree(a, b) ==
  /\ a.target = b.target /\ a.desired = b.desired /\ a.lastMode = b.lastMode
  /\ a.neutralizing = b.neutralizing /\ a.since = b.since
  /\ a.neutralResend = b.neutralResend /\ a.resend = b.resend
  /\ a.watch = b.watch /\ a.watchAge = b.watchAge /\ a.trackAge = b.trackAge
  /\ a.mismatch = b.mismatch /\ a.uncertain = b.uncertain /\ a.paused = b.paused
  /\ a.lastStatus = b.lastStatus /\ a.guard = b.guard /\ a.guardDue = b.guardDue
  /\ a.count = b.count /\ a.stable = b.stable

OnlyZeros(s, t) == \A p \in Limits : t.sent[p] \in {s.sent[p], 0}

\* A property and a value that may be sent for it.
Sendable(p, v) ==
  \/ p = "smart" /\ v = "ON"
  \/ p = "mode" /\ v \in Modes
  \/ p \in Limits /\ v \in Power

\* A publish changes the message of its property and the publish cache.
LEMMA SendEffect ==
  ASSUME NEW s \in States, NEW p, NEW v, Sendable(p, v)
  PROVE  /\ Send(s, p, v) \in States
         /\ Agree(s.c, Send(s, p, v).c)
         /\ \A q \in Limits : Send(s, p, v).sent[q] \in {s.sent[q]} \cup (IF q = p THEN {v} ELSE {})
<1> DEFINE t == Send(s, p, v)
<1>1. p \in Props
  BY DEF Sendable, Props, Limits
<1>2. s.c \in Controllers /\ s.sent \in Messages /\ s.c.published \in Messages
  BY DEF States, Controllers
<1>3. \A m \in Messages : [m EXCEPT ![p] = v] \in Messages
  BY DEF Sendable, Messages, Limits, Modes
<1>4. CASE mqtt = "down"
  BY <1>4 DEF Send, Agree
<1>5. CASE mqtt # "down"
  <2> DEFINE pub == IF p \in Limits THEN [s.c.published EXCEPT ![p] = v] ELSE s.c.published
  <2>1. t = [c |-> [s.c EXCEPT !.published = pub], sent |-> [s.sent EXCEPT ![p] = v]]
    BY <1>5, <1>2 DEF Send, States
  <2>2. pub \in Messages
    BY <1>2, <1>3
  <2> HIDE DEF pub
  <2>3. [s.c EXCEPT !.published = pub] \in Controllers /\ Agree(s.c, [s.c EXCEPT !.published = pub])
    BY <1>2, <2>2 DEF Controllers, Agree
  <2>4. [s.sent EXCEPT ![p] = v] \in Messages
    BY <1>2, <1>3
  <2>5. \A q \in Limits : [s.sent EXCEPT ![p] = v][q] \in {s.sent[q]} \cup (IF q = p THEN {v} ELSE {})
    BY <1>2 DEF Messages, Limits
  <2> QED
    BY <2>1, <2>3, <2>4, <2>5 DEF States
<1> QED
  BY <1>4, <1>5

\* Entering and leaving a gate publishes nothing.
LEMMA GateEffect ==
  ASSUME NEW s \in States, NEW gate \in Gates
  PROVE  /\ Enter(s, gate) \in States /\ Agree(s.c, Enter(s, gate).c) /\ Enter(s, gate).sent = s.sent
         /\ Leave(s) \in States /\ Agree(s.c, Leave(s).c) /\ Leave(s).sent = s.sent
<1>1. s.c \in Controllers /\ <<"none", "IDLE">> \in Gates
  BY DEF States, Gates, Intents
<1>2. ASSUME NEW g \in Gates, NEW d \in BOOLEAN
      PROVE  LET t == [[s EXCEPT !.c.gate = g] EXCEPT !.c.due = d]
             IN t \in States /\ Agree(s.c, t.c) /\ t.sent = s.sent
  <2> DEFINE k == [[s.c EXCEPT !.gate = g] EXCEPT !.due = d]
  <2>1. k \in Controllers /\ Agree(s.c, k)
    BY <1>1 DEF Controllers, Agree
  <2> DEFINE e == [s EXCEPT !.c.gate = g]
  <2>2. e = [c |-> [s.c EXCEPT !.gate = g], sent |-> s.sent]
    BY DEF States
  <2> HIDE DEF e
  <2>3. [e EXCEPT !.c.due = d] = [c |-> k, sent |-> s.sent]
    BY <2>2
  <2> HIDE DEF k
  <2> QED
    BY <2>1, <2>3 DEF States, e
<1> QED
  BY <1>1, <1>2 DEF Enter, Leave

\* A recorded batch is the desired one; target, timers and guard stay.
Recorded(a, b, batch) ==
  /\ b.desired = batch /\ b.target = a.target
  /\ b.mismatch = MismatchAfter(a.desired, batch, a.mismatch)
  /\ b.neutralizing = (batch.intent \notin Active)
  /\ b.watch = a.watch /\ b.watchAge = a.watchAge /\ b.trackAge = a.trackAge
  /\ b.uncertain = a.uncertain /\ b.paused = a.paused /\ b.lastStatus = a.lastStatus
  /\ b.guard = a.guard /\ b.guardDue = a.guardDue
  /\ b.count = a.count /\ b.stable = a.stable

LEMMA RecordEffect ==
  ASSUME NEW s \in States, NEW batch \in Batches
  PROVE  /\ Record(s, batch) \in States
         /\ Record(s, batch).sent = s.sent
         /\ Recorded(s.c, Record(s, batch).c, batch)
<1> DEFINE old == s.c.desired
           changed == old.intent # batch.intent
           mis == MismatchAfter(old, batch, s.c.mismatch)
           c1 == [[s.c EXCEPT !.desired = batch] EXCEPT !.mismatch = mis]
           t == Record(s, batch)
<1>1. s.c \in Controllers /\ old \in Batches /\ mis \in BOOLEAN
  BY DEF States, Controllers, MismatchAfter
<1> HIDE DEF mis
<1>2. c1 \in Controllers /\ c1.desired = batch /\ c1.mismatch = mis
  BY <1>1 DEF Controllers
<1>3. /\ c1.target = s.c.target /\ c1.watch = s.c.watch
      /\ c1.watchAge = s.c.watchAge /\ c1.trackAge = s.c.trackAge /\ c1.uncertain = s.c.uncertain
      /\ c1.paused = s.c.paused /\ c1.lastStatus = s.c.lastStatus /\ c1.guard = s.c.guard
      /\ c1.guardDue = s.c.guardDue /\ c1.count = s.c.count /\ c1.stable = s.c.stable
      /\ c1.since = s.c.since /\ c1.resend = s.c.resend
  BY <1>1 DEF Controllers
<1> DEFINE c2 == IF batch.intent \in Active
            THEN [c1 EXCEPT !.lastMode = batch.mode, !.resend = @ \/ changed,
                            !.neutralizing = FALSE, !.since = "none"]
            ELSE IF changed \/ old.mode # batch.mode
            THEN [c1 EXCEPT !.neutralizing = TRUE, !.since = "running", !.neutralResend = TRUE]
            ELSE [c1 EXCEPT !.neutralizing = TRUE, !.since = IF @ = "none" THEN "running" ELSE @]
<1>4. t = [s EXCEPT !.c = c2]
  BY DEF Record, mis
<1> HIDE DEF c1
<1>5. c2 \in Controllers
  <2>1. CASE batch.intent \in Active
    BY <1>2, <2>1 DEF Controllers, Batches, Timers
  <2>2. CASE batch.intent \notin Active /\ (changed \/ old.mode # batch.mode)
    BY <1>2, <2>2 DEF Controllers, Timers
  <2>3. CASE batch.intent \notin Active /\ ~(changed \/ old.mode # batch.mode)
    BY <1>2, <2>3 DEF Controllers, Timers
  <2> QED
    BY <2>1, <2>2, <2>3
<1>6. Recorded(s.c, c2, batch)
  BY <1>2, <1>3 DEF Controllers, Recorded, mis, Timers
<1> HIDE DEF c2
<1> QED
  BY <1>4, <1>5, <1>6 DEF States

\* Limits of a neutral batch are zero; whatever needs smartMode sends no limit
\* without it.
LEMMA SendLimitsEffect ==
  ASSUME NEW s \in States, NEW batch \in Batches
  PROVE  /\ SendLimits(s, batch) \in States
         /\ Agree(s.c, SendLimits(s, batch).c)
         /\ batch.in = 0 /\ batch.out = 0 => OnlyZeros(s, SendLimits(s, batch))
<1>1. batch.in \in Power /\ batch.out \in Power /\ 0 \in Power /\ "in" \in Limits /\ "out" \in Limits
  BY DEF Batches, Power, Limits
<1>2. ASSUME NEW p \in Limits, NEW q \in Limits, NEW v \in Power
      PROVE  LET t == Send(Send(s, p, 0), q, v)
             IN t \in States /\ Agree(s.c, t.c) /\ (v = 0 => OnlyZeros(s, t))
  <2> DEFINE r == Send(s, p, 0)
             t == Send(r, q, v)
  <2>1. r \in States /\ Agree(s.c, r.c) /\ \A l \in Limits : r.sent[l] \in {s.sent[l], 0}
    BY <1>1, SendEffect DEF Sendable
  <2> HIDE DEF r
  <2>2. t \in States /\ Agree(r.c, t.c) /\ \A l \in Limits : t.sent[l] \in {r.sent[l], v}
    BY <2>1, SendEffect DEF Sendable
  <2> HIDE DEF t
  <2>3. v = 0 => OnlyZeros(s, t)
    BY <2>1, <2>2 DEF OnlyZeros
  <2>4. Agree(s.c, t.c)
    BY <2>1, <2>2 DEF Agree
  <2> QED
    BY <2>2, <2>3, <2>4 DEF r, t
<1> QED
  BY <1>1, <1>2 DEF SendLimits

\* What a dispatch leaves: a recorded batch, and of the limits only zeros when
\* the batch is neutral or smartMode is not live.
Dispatched(s, t, batch) ==
  /\ t \in States
  /\ Recorded(s.c, t.c, batch)
  /\ batch.intent = "NEUTRALIZE" \/ ~FlashActive => OnlyZeros(s, t)

\* Recording after publishing.
LEMMA RecordAfter ==
  ASSUME NEW s \in States, NEW r \in States, NEW batch \in Batches,
         Agree(s.c, r.c), batch.intent = "NEUTRALIZE" \/ ~FlashActive => OnlyZeros(s, r)
  PROVE  Dispatched(s, Record(r, batch), batch)
<1> DEFINE t == Record(r, batch)
<1>1. t \in States /\ t.sent = r.sent /\ Recorded(r.c, t.c, batch)
  BY RecordEffect
<1> HIDE DEF t
<1>2. Recorded(s.c, t.c, batch)
  BY <1>1 DEF Recorded, Agree
<1>3. batch.intent = "NEUTRALIZE" \/ ~FlashActive => OnlyZeros(s, t)
  BY <1>1 DEF OnlyZeros
<1> QED
  BY <1>1, <1>2, <1>3 DEF Dispatched, t

LEMMA AgreeTwice ==
  ASSUME NEW a, NEW b, NEW d, Agree(a, b), Agree(b, d)
  PROVE  Agree(a, d)
BY DEF Agree

LEMMA ZerosTwice ==
  ASSUME NEW s, NEW r, NEW t, OnlyZeros(s, r), OnlyZeros(r, t)
  PROVE  OnlyZeros(s, t)
BY DEF OnlyZeros

LEMMA NeutralEffect ==
  ASSUME NEW s \in States, NEW mode \in Modes, NEW kind
  PROVE  /\ Neutral(mode) \in Batches
         /\ Dispatched(s, DispatchNeutral(s, Neutral(mode), kind), Neutral(mode))
<1> DEFINE batch == Neutral(mode)
           gate == <<"SAFETY_NEUTRALIZATION", "NEUTRALIZE">>
           entered == Enter(s, gate)
           smart == IF FlashActive THEN entered ELSE Send(entered, "smart", "ON")
           full == IF kind \in Guarded THEN smart ELSE Send(smart, "mode", batch.mode)
<1>1. batch \in Batches /\ batch.in = 0 /\ batch.out = 0 /\ batch.mode \in Modes
  BY DEF Neutral, Batches, Intents, Power
<1>2. gate \in Gates
  BY DEF Gates, Intents
<1>3. /\ entered \in States /\ Agree(s.c, entered.c) /\ entered.sent = s.sent
      /\ Leave(s) \in States /\ Agree(s.c, Leave(s).c) /\ Leave(s).sent = s.sent
  BY <1>2, GateEffect
<1>4. OnlyZeros(s, entered) /\ OnlyZeros(s, Leave(s)) /\ OnlyZeros(s, s) /\ Agree(s.c, s.c)
  BY <1>3 DEF OnlyZeros, Agree
<1> HIDE DEF entered, gate
<1>5. smart \in States /\ Agree(s.c, smart.c) /\ OnlyZeros(s, smart)
  <2>1. CASE FlashActive
    BY <2>1, <1>3, <1>4
  <2>2. CASE ~FlashActive
    <3> DEFINE t == Send(entered, "smart", "ON")
    <3>1. t \in States /\ Agree(entered.c, t.c) /\ OnlyZeros(entered, t)
      BY <1>3, SendEffect DEF Sendable, OnlyZeros, Limits
    <3> HIDE DEF t
    <3> QED
      BY <2>2, <3>1, <1>3, <1>4, AgreeTwice, ZerosTwice DEF t
  <2> QED
    BY <2>1, <2>2
<1> HIDE DEF smart
<1>6. full \in States /\ Agree(s.c, full.c) /\ OnlyZeros(s, full)
  <2> DEFINE t == Send(smart, "mode", batch.mode)
  <2>1. t \in States /\ Agree(smart.c, t.c) /\ OnlyZeros(smart, t)
    BY <1>1, <1>5, SendEffect DEF Sendable, OnlyZeros, Limits
  <2> HIDE DEF t
  <2> QED
    BY <2>1, <1>5, AgreeTwice, ZerosTwice DEF t
<1> HIDE DEF full
<1>7. LET t == SendLimits(full, batch)
      IN t \in States /\ Agree(s.c, t.c) /\ OnlyZeros(s, t)
  BY <1>1, <1>6, SendLimitsEffect, AgreeTwice, ZerosTwice
<1>8. DispatchNeutral(s, batch, kind) \in
        {Record(Leave(s), batch), Record(s, batch), Record(SendLimits(full, batch), batch)}
  BY DEF DispatchNeutral, full, smart, entered, gate
<1> HIDE DEF batch
<1> QED
  BY <1>1, <1>3, <1>4, <1>7, <1>8, RecordAfter DEF batch

LEMMA ActiveEffect ==
  ASSUME NEW s \in States, NEW batch \in Batches, NEW kind, batch.intent \in Active
  PROVE  Dispatched(s, DispatchActive(s, batch, kind), batch)
<1> DEFINE smartGate == <<"WAIT_SMART_MODE", batch.intent>>
           fullGate == <<"WAIT_FULL_STATE", batch.intent>>
           limit == IF batch.intent = "CHARGE" THEN "in" ELSE "out"
           waiting == IF Allowed(s, smartGate) THEN Send(Enter(s, smartGate), "smart", "ON") ELSE s
           moded == Send(Enter(s, fullGate), "mode", batch.mode)
           full == IF Allowed(s, fullGate) THEN SendLimits(moded, batch) ELSE s
           changed == IF StateMatches(batch) THEN Leave(s) ELSE SendChanged(Leave(s), limit, batch[limit])
<1>1. smartGate \in Gates /\ fullGate \in Gates /\ batch.mode \in Modes
  BY DEF Gates, Batches
<1>2. s \in States /\ Agree(s.c, s.c) /\ OnlyZeros(s, s)
  BY DEF Agree, OnlyZeros
<1> HIDE DEF smartGate, fullGate
<1>3. waiting \in States /\ Agree(s.c, waiting.c) /\ OnlyZeros(s, waiting)
  <2> DEFINE e == Enter(s, smartGate)
             t == Send(e, "smart", "ON")
  <2>1. e \in States /\ Agree(s.c, e.c) /\ e.sent = s.sent
    BY <1>1, GateEffect
  <2> HIDE DEF e
  <2>2. t \in States /\ Agree(e.c, t.c) /\ OnlyZeros(e, t)
    BY <2>1, SendEffect DEF Sendable, OnlyZeros, Limits
  <2> HIDE DEF t
  <2>3. Agree(s.c, t.c) /\ OnlyZeros(s, t)
    BY <2>1, <2>2, AgreeTwice DEF OnlyZeros
  <2> QED
    BY <1>2, <2>2, <2>3 DEF t, e
<1>4. full \in States /\ Agree(s.c, full.c)
  <2> DEFINE e == Enter(s, fullGate)
             m == Send(e, "mode", batch.mode)
             t == SendLimits(m, batch)
  <2>1. e \in States /\ Agree(s.c, e.c)
    BY <1>1, GateEffect
  <2> HIDE DEF e
  <2>2. m \in States /\ Agree(e.c, m.c)
    BY <1>1, <2>1, SendEffect DEF Sendable
  <2> HIDE DEF m
  <2>3. t \in States /\ Agree(m.c, t.c)
    BY <2>2, SendLimitsEffect
  <2> HIDE DEF t
  <2>4. Agree(s.c, t.c)
    BY <2>1, <2>2, <2>3, AgreeTwice
  <2> QED
    BY <1>2, <2>3, <2>4 DEF t, m, e
<1>5. changed \in States /\ Agree(s.c, changed.c)
  <2>1. Leave(s) \in States /\ Agree(s.c, Leave(s).c)
    BY <1>1, GateEffect
  <2>2. Sendable(limit, batch[limit])
    BY DEF Batches, Sendable, Limits
  <2> DEFINE t == Send(Leave(s), limit, batch[limit])
  <2> HIDE DEF limit
  <2>3. t \in States /\ Agree(Leave(s).c, t.c)
    BY <2>1, <2>2, SendEffect
  <2> HIDE DEF t
  <2>4. Agree(s.c, t.c)
    BY <2>1, <2>3, AgreeTwice
  <2>5. changed \in {Leave(s), t}
    BY DEF SendChanged, t
  <2> QED
    BY <2>1, <2>3, <2>4, <2>5
<1>6. batch.intent # "NEUTRALIZE"
  BY DEF Active
<1>7. CASE ~FlashActive
  <2>1. DispatchActive(s, batch, kind) = Record(waiting, batch)
    BY <1>7 DEF DispatchActive, smartGate
  <2> HIDE DEF waiting
  <2> QED
    BY <1>3, <2>1, RecordAfter
<1>8. CASE FlashActive
  <2>1. DispatchActive(s, batch, kind) \in {Record(full, batch), Record(changed, batch)}
    BY <1>8 DEF DispatchActive, fullGate
  <2> HIDE DEF full, changed
  <2> QED
    BY <1>4, <1>5, <1>6, <1>8, <2>1, RecordAfter
<1> QED
  BY <1>7, <1>8

-----------------------------------------------------------------------------
(* The inductive invariants *)

\* The batches a controller records.
Sound(batch) ==
  \/ batch = NoBatch
  \/ \E mode \in Modes : batch = Neutral(mode)
  \/ \E w \in Signals \ {0} : batch = Batch(w)

\* The desired batch is the one of the target; a neutralization and the guard
\* go with a zero target, the guard with a neutral batch.
Coherent(k) ==
  /\ Sound(k.desired)
  /\ k.target # 0 => k.target = Signed(k.desired)
  /\ k.neutralizing => k.target = 0
  /\ k.guard => k.target = 0 /\ k.desired.intent = "NEUTRALIZE"

\* What the guard has counted was observed under it: its count belongs to an
\* active guard, and the second observation is newer than the first.
CountInv ==
  /\ c.count > 0 => c.guard
  /\ newer => c.count > 0 /\ looked
  /\ c.count = 2 => looked

\* Only a message may lack a value, the device has one for each property.
DeviceInv == \A p \in Props : device[p] # Nothing[p]

CommandInv == TypeOK /\ Coherent(c) /\ CountInv /\ DeviceInv

\* A command without effect stays the desired one, and marked as such, until
\* the guard takes over; its reaction timer has run out and stays so.
Pending(k, intent) ==
  /\ k.desired.intent = intent /\ Intent(k.target) = intent
  /\ k.mismatch /\ ~k.neutralizing
  /\ k.watch = intent /\ Overdue(k.watchAge)
\* Tracking never runs ahead of the reaction.
Aged(k) == Older[k.trackAge] <= Older[k.watchAge]
Resolved(k, u) == u = "none" \/ k.guard \/ Pending(k, u)
EffectInv == Aged(c) /\ Resolved(c, unproven)

\* What is taken for a smartMode that is on is one, unless the device lost it.
FlashInv == Believed /\ ~suspect => device["smart"] = "ON"

-----------------------------------------------------------------------------
(* Batches *)

LEMMA SignalType == Signals \subseteq Int /\ 0 \in Signals /\ Power \subseteq Nat
<1>1. Power \subseteq Nat /\ 0 \in Power
  BY CommandAssumption DEF CommandAssumption, Power
<1> DEFINE Negative == {-w : w \in Power}
<1>2. Negative \subseteq Int
  BY <1>1
<1>3. Signals = Power \cup Negative
  BY DEF Signals
<1> HIDE DEF Negative
<1> QED
  BY <1>1, <1>2, <1>3

LEMMA BatchType ==
  ASSUME NEW w \in Signals \ {0}
  PROVE  /\ Batch(w) \in Batches /\ Sound(Batch(w))
         /\ Batch(w).intent = Intent(w) /\ Intent(w) \in Active
         /\ Signed(Batch(w)) = w
<1>1. w \in Int /\ w # 0 /\ (w > 0 => w \in Power) /\ (w < 0 => -w \in Power) /\ 0 \in Power
  <2>1. w \in Int /\ w # 0 /\ Power \subseteq Nat /\ 0 \in Power
    BY SignalType DEF Power
  <2>2. w \in Power \/ \E v \in Power : w = -v
    BY DEF Signals
  <2> QED
    BY <2>1, <2>2
<1>2. Sound(Batch(w))
  BY DEF Sound
<1>3. CASE w > 0
  <2>1. Batch(w) = [intent |-> "CHARGE", mode |-> "InputMode", in |-> w, out |-> 0] /\ Intent(w) = "CHARGE"
    BY <1>3 DEF Batch, Intent
  <2>2. Batch(w) \in Batches
    BY <1>1, <1>3, <2>1 DEF Batches, Intents, Modes
  <2>3. Batch(w).in = w /\ Batch(w).out = 0 /\ w - 0 = w
    BY <1>1, <2>1
  <2> QED
    BY <1>2, <2>1, <2>2, <2>3 DEF Active, Signed
<1>4. CASE w < 0
  <2>1. ~(w > 0)
    BY <1>1, <1>4
  <2>2. Batch(w) = [intent |-> "DISCHARGE", mode |-> "OutputMode", in |-> 0, out |-> -w] /\ Intent(w) = "DISCHARGE"
    BY <1>4, <2>1 DEF Batch, Intent
  <2>3. Batch(w) \in Batches
    BY <1>1, <1>4, <2>2 DEF Batches, Intents, Modes
  <2>4. Batch(w).in = 0 /\ Batch(w).out = -w
    BY <2>2
  <2>5. 0 - (-w) = w
    BY <1>1
  <2> QED
    BY <1>2, <2>2, <2>3, <2>4, <2>5 DEF Active, Signed
<1> QED
  BY <1>1, <1>3, <1>4

LEMMA NeutralType ==
  ASSUME NEW mode \in Modes
  PROVE  /\ Neutral(mode) \in Batches /\ Sound(Neutral(mode)) /\ Neutral(mode) # NoBatch
         /\ Neutral(mode).intent = "NEUTRALIZE" /\ Signed(Neutral(mode)) = 0
<1>1. Sound(Neutral(mode))
  BY DEF Sound
<1>2. Neutral(mode) = [intent |-> "NEUTRALIZE", mode |-> mode, in |-> 0, out |-> 0] /\ 0 \in Power
  BY DEF Neutral, Power
<1>3. Neutral(mode) \in Batches /\ NoBatch.intent = "IDLE"
  BY <1>2 DEF Batches, Intents, NoBatch
<1> QED
  BY <1>1, <1>2, <1>3 DEF Signed

\* A recorded batch is none, a neutral one or the active one of its power.
LEMMA SoundCases ==
  ASSUME NEW batch, Sound(batch)
  PROVE  /\ batch \in Batches /\ Signed(batch) \in Signals
         /\ \/ batch = NoBatch /\ batch.intent = "IDLE" /\ Signed(batch) = 0
            \/ batch.intent = "NEUTRALIZE" /\ Signed(batch) = 0 /\ batch # NoBatch
            \/ /\ batch.intent \in Active /\ Signed(batch) # 0 /\ batch # NoBatch
               /\ Intent(Signed(batch)) = batch.intent
<1>1. CASE batch = NoBatch
  <2>1. Signed(NoBatch) = 0 /\ NoBatch \in Batches /\ NoBatch.intent = "IDLE"
    BY DEF NoBatch, Batches, Intents, Modes, Power, Signed
  <2> QED
    BY <1>1, <2>1, SignalType
<1>2. ASSUME NEW mode \in Modes, batch = Neutral(mode)
      PROVE  batch \in Batches /\ batch.intent = "NEUTRALIZE" /\ Signed(batch) = 0 /\ batch # NoBatch
  BY <1>2, NeutralType
<1>3. ASSUME NEW w \in Signals \ {0}, batch = Batch(w)
      PROVE  /\ batch \in Batches /\ batch.intent \in Active /\ Signed(batch) = w
             /\ batch # NoBatch /\ Intent(Signed(batch)) = batch.intent
  <2>1. Batch(w) \in Batches /\ Batch(w).intent = Intent(w) /\ Intent(w) \in Active /\ Signed(Batch(w)) = w
    BY BatchType
  <2> QED
    BY <1>3, <2>1, NoBatch.intent = "IDLE" DEF NoBatch, Active
<1> QED
  BY <1>1, <1>2, <1>3, SignalType DEF Sound

\* A dispatched batch is recorded.
LEMMA DispatchEffect ==
  ASSUME NEW s \in States, NEW batch, Sound(batch), batch # NoBatch, NEW kind
  PROVE  Dispatched(s, Dispatch(s, batch, kind), batch)
<1>1. CASE batch.intent = "NEUTRALIZE"
  <2>1. PICK mode \in Modes : batch = Neutral(mode)
    <3>1. \A w \in Signals \ {0} : Batch(w).intent # "NEUTRALIZE"
      BY BatchType DEF Active
    <3> QED
      BY <1>1, <3>1 DEF Sound, NoBatch
  <2> QED
    BY <1>1, <2>1, NeutralEffect DEF Dispatch
<1>2. CASE batch.intent # "NEUTRALIZE"
  BY <1>2, SoundCases, ActiveEffect DEF Dispatch
<1> QED
  BY <1>1, <1>2

\* A resync sends the desired batch, or neutralizes after a zero without one.
LEMMA ResendEffect ==
  ASSUME NEW s \in States, Coherent(s.c)
  PROVE  \E batch :
           /\ Dispatched(s, ForceResend(s), batch)
           /\ Sound(batch) /\ batch # NoBatch /\ Signed(batch) = s.c.target
           /\ batch = s.c.desired \/ (s.c.target = 0 /\ batch.intent = "NEUTRALIZE")
<1>1. s.c \in Controllers /\ s.c.target \in Signals /\ s.c.lastMode \in Modes
  BY DEF States, Controllers
<1> DEFINE batch == IF s.c.desired # NoBatch /\ Signed(s.c.desired) = s.c.target THEN s.c.desired
                    ELSE IF s.c.target = 0 THEN Neutral(s.c.lastMode)
                    ELSE Batch(s.c.target)
<1>2. ForceResend(s) = Dispatch(s, batch, "resync")
  BY DEF ForceResend
<1>3. Sound(s.c.desired) /\ (s.c.target # 0 => s.c.target = Signed(s.c.desired))
  BY DEF Coherent
<1>4. s.c.target # 0 => s.c.desired # NoBatch
  BY <1>3, Signed(NoBatch) = 0 DEF NoBatch, Signed
<1>5. /\ Sound(batch) /\ batch # NoBatch /\ Signed(batch) = s.c.target
      /\ batch = s.c.desired \/ (s.c.target = 0 /\ batch.intent = "NEUTRALIZE")
  <2>1. CASE s.c.desired # NoBatch /\ Signed(s.c.desired) = s.c.target
    <3>1. batch = s.c.desired
      BY <2>1
    <3> HIDE DEF batch
    <3>2. Sound(batch) /\ batch # NoBatch
      BY <2>1, <3>1, <1>3
    <3>3. Signed(batch) = s.c.target
      BY <2>1, <3>1
    <3> QED
      BY <3>1, <3>2, <3>3
  <2>2. CASE ~(s.c.desired # NoBatch /\ Signed(s.c.desired) = s.c.target)
    <3>1. s.c.target = 0
      BY <2>2, <1>3, <1>4
    <3>2. batch = Neutral(s.c.lastMode)
      BY <2>2, <3>1
    <3> QED
      BY <1>1, <3>1, <3>2, NeutralType
  <2> QED
    BY <2>1, <2>2
<1> HIDE DEF batch
<1> QED
  BY <1>2, <1>5, DispatchEffect

-----------------------------------------------------------------------------
(* The steps.  What a step of the controller does, beyond the types: the        *)
(* invariants hold again, only zeros leave under the guard or without smartMode,*)
(* and the guard goes only after a look.                                        *)

Step ==
  /\ c' \in Controllers /\ sent' \in Messages
  /\ unproven' \in Active \cup {"none"} /\ looked' \in BOOLEAN /\ newer' \in BOOLEAN
  /\ Coherent(c') /\ CountInv'
  /\ c.guard \/ ~FlashActive => \A p \in Limits : sent'[p] \in {sent[p], 0}
  /\ c.guard /\ ~c'.guard => looked
  /\ Aged(c) => Aged(c')
  /\ EffectInv => Resolved(c', unproven')

\* The fields a step of the control path leaves alone, up to the guard's own.
Watching(a, b) ==
  /\ b.watch = a.watch /\ b.watchAge = a.watchAge /\ b.trackAge = a.trackAge

\* A blocked request leaves the controller as it is, or activates the guard.
LEMMA BlockedEffect ==
  ASSUME NEW s \in States, NEW intent, s.c.desired = c.desired
  PROVE  \/ Blocked(s, intent) = s /\ ~Activates(intent)
         \/ /\ Activates(intent) /\ Blocked(s, intent) \in States
            /\ LET k == Blocked(s, intent).c
               IN /\ k.desired.intent = "NEUTRALIZE" /\ Sound(k.desired)
                  /\ Signed(k.desired) = 0
                  /\ k.guard /\ k.count = 0 /\ k.target = s.c.target
                  /\ Watching(s.c, k)
            /\ OnlyZeros(s, Blocked(s, intent))
<1>1. CASE ~Activates(intent)
  BY <1>1 DEF Blocked
<1>2. CASE Activates(intent)
  <2> DEFINE g == [s EXCEPT !.c.guard = TRUE, !.c.guardDue = FALSE, !.c.count = 0, !.c.stable = FALSE]
             k == [s.c EXCEPT !.guard = TRUE, !.guardDue = FALSE, !.count = 0, !.stable = FALSE]
             batch == Neutral(s.c.lastMode)
             t == Dispatch(g, batch, "late_effect_guard")
  <2>1. s.c \in Controllers /\ s.sent \in Messages
    BY DEF States
  <2>2. k \in Controllers /\ k.guard /\ k.count = 0 /\ k.target = s.c.target /\ Watching(s.c, k)
    <3>1. k \in Controllers
      BY <2>1, 0 \in 0..2 DEF Controllers
    <3>2. k.guard /\ k.count = 0
      BY <2>1 DEF Controllers
    <3>3. k.target = s.c.target /\ Watching(s.c, k)
      BY <2>1 DEF Controllers, Watching
    <3> QED
      BY <3>1, <3>2, <3>3
  <2>3. g = [s EXCEPT !.c = k]
    BY DEF States
  <2> HIDE DEF k, g
  <2>4. g \in States /\ g.c = k /\ g.sent = s.sent
    BY <2>1, <2>2, <2>3 DEF States
  <2>5. /\ Sound(batch) /\ batch # NoBatch
        /\ batch.intent = "NEUTRALIZE" /\ Signed(batch) = 0
    BY <2>1, NeutralType DEF Controllers
  <2> HIDE DEF batch
  <2>6. Dispatched(g, t, batch)
    BY <2>4, <2>5, DispatchEffect
  <2>7. Blocked(s, intent) = t
    BY <1>2 DEF Blocked, t, g, batch
  <2> HIDE DEF t
  <2> QED
    BY <1>2, <2>2, <2>4, <2>5, <2>6, <2>7 DEF Dispatched, Recorded, Watching, OnlyZeros
<1> QED
  BY <1>1, <1>2

\* The state before a step.
LEMMA NowType ==
  ASSUME TypeOK
  PROVE  Now \in States /\ Now.c = c /\ Now.sent = sent /\ c \in Controllers
BY DEF TypeOK, Now, States

\* A step of the control path that keeps the guard and its count.
LEMMA AdoptStep ==
  ASSUME CommandInv, NEW s \in States, Adopt(s), UNCHANGED <<newer, unproven>>,
         Coherent(s.c), c.guard => s.c.guard, s.c.count = c.count, Watching(c, s.c),
         c.guard \/ ~FlashActive => OnlyZeros(Now, s),
         EffectInv => Resolved(s.c, unproven)
  PROVE  Step
<1>1. /\ c' = s.c /\ sent' = s.sent /\ c' \in Controllers /\ sent' \in Messages
      /\ looked' = (looked /\ s.c.guard) /\ newer' = newer /\ unproven' = unproven
  BY DEF Adopt, States
<1>2. looked \in BOOLEAN /\ newer \in BOOLEAN /\ unproven \in Active \cup {"none"}
      /\ c.guard \in BOOLEAN /\ s.c.guard \in BOOLEAN
  BY DEF CommandInv, TypeOK, States, Controllers
<1>3. CountInv'
  BY <1>1, <1>2 DEF CommandInv, CountInv
<1>4. c.guard \/ ~FlashActive => \A p \in Limits : sent'[p] \in {sent[p], 0}
  BY <1>1 DEF OnlyZeros, Now
<1>5. Aged(c) => Aged(c')
  BY <1>1 DEF Aged, Watching
<1>6. EffectInv => Resolved(c', unproven')
  BY <1>1
<1> QED
  BY <1>1, <1>2, <1>3, <1>4, <1>5, <1>6 DEF Step

\* A target that is set on a controller keeps everything else.
LEMMA RetargetEffect ==
  ASSUME NEW s \in States, NEW w \in Signals
  PROVE  LET t == [s EXCEPT !.c.target = w]
         IN /\ t \in States /\ t.sent = s.sent /\ t.c.target = w
            /\ t.c.desired = s.c.desired /\ t.c.neutralizing = s.c.neutralizing
            /\ t.c.guard = s.c.guard /\ t.c.count = s.c.count /\ t.c.mismatch = s.c.mismatch
            /\ Watching(s.c, t.c) /\ t.c.lastMode = s.c.lastMode
<1> DEFINE t == [s EXCEPT !.c.target = w]
           k == [s.c EXCEPT !.target = w]
<1>1. s.c \in Controllers /\ s.sent \in Messages
  BY DEF States
<1>2. /\ k \in Controllers /\ k.target = w
      /\ k.desired = s.c.desired /\ k.neutralizing = s.c.neutralizing
      /\ k.guard = s.c.guard /\ k.count = s.c.count /\ k.mismatch = s.c.mismatch
      /\ Watching(s.c, k) /\ k.lastMode = s.c.lastMode
  BY <1>1 DEF Controllers, Watching
<1>3. t = [s EXCEPT !.c = k]
  BY DEF States
<1> HIDE DEF k, t
<1>4. t \in States /\ t.sent = s.sent /\ t.c = k
  BY <1>1, <1>2, <1>3 DEF States
<1> QED
  BY <1>2, <1>4 DEF t

\* A blocked request with a zero target.
LEMMA BlockedStep ==
  ASSUME CommandInv, NEW intent, Blocks(intent), NEW s \in States,
         s.c.desired = c.desired, s.sent = sent, s.c.guard = c.guard,
         s.c.count = c.count, Watching(c, s.c),
         Adopt([Blocked(s, intent) EXCEPT !.c.target = 0]), UNCHANGED <<newer, unproven>>
  PROVE  Step
<1> DEFINE b == Blocked(s, intent)
           t == [b EXCEPT !.c.target = 0]
<1>1. /\ b \in States
      /\ \/ b = s /\ ~Activates(intent)
         \/ /\ Activates(intent) /\ b.c.desired.intent = "NEUTRALIZE" /\ Sound(b.c.desired)
            /\ Signed(b.c.desired) = 0 /\ b.c.guard /\ b.c.count = 0 /\ Watching(s.c, b.c)
            /\ OnlyZeros(s, b)
  BY BlockedEffect
<1> HIDE DEF b
<1>2. /\ t \in States /\ t.sent = b.sent /\ t.c.target = 0
      /\ t.c.desired = b.c.desired /\ t.c.guard = b.c.guard /\ t.c.count = b.c.count
      /\ Watching(b.c, t.c)
  BY <1>1, RetargetEffect, SignalType
<1> HIDE DEF t
<1>3. Watching(c, t.c)
  BY <1>1, <1>2 DEF Watching
<1>4. OnlyZeros(Now, t)
  BY <1>1, <1>2 DEF OnlyZeros, Now
<1>5. Coherent(c) /\ CountInv /\ c \in Controllers
  BY DEF CommandInv, TypeOK
<1>6. CASE b = s /\ ~Activates(intent)
  <2>1. c.guard
    BY <1>6 DEF Blocks
  <2>2. Coherent(t.c) /\ t.c.guard /\ t.c.count = c.count
    BY <2>1, <1>2, <1>5, <1>6 DEF Coherent
  <2> QED
    BY <2>1, <2>2, <1>2, <1>3, <1>4, AdoptStep DEF Resolved, t, b
<1>7. CASE Activates(intent)
  <2>1. ~c.guard /\ c.count = 0
    BY <1>5, <1>7 DEF Activates, CountInv, Controllers
  <2>2. Coherent(t.c) /\ t.c.guard /\ t.c.count = c.count
    BY <2>1, <1>1, <1>2, <1>7 DEF Coherent
  <2> QED
    BY <2>1, <2>2, <1>2, <1>3, <1>4, AdoptStep DEF Resolved, t, b
<1> QED
  BY <1>1, <1>6, <1>7

\* A neutral batch that is dispatched and a zero target.
LEMMA NeutralStep ==
  ASSUME CommandInv, ~Blocks("NEUTRALIZE"), NEW mode \in Modes,
         Adopt([Dispatch(Now, Neutral(mode), "neutralization") EXCEPT !.c.target = 0]),
         UNCHANGED <<newer, unproven>>
  PROVE  Step
<1> DEFINE batch == Neutral(mode)
           d == Dispatch(Now, batch, "neutralization")
           t == [d EXCEPT !.c.target = 0]
<1>1. Now \in States /\ Now.c = c /\ c \in Controllers
  BY NowType DEF CommandInv
<1>2. /\ Sound(batch) /\ batch # NoBatch /\ Signed(batch) = 0
      /\ batch.intent = "NEUTRALIZE"
  BY NeutralType
<1> HIDE DEF batch
<1>3. Dispatched(Now, d, batch)
  BY <1>1, <1>2, DispatchEffect
<1> HIDE DEF d
<1>4. /\ t \in States /\ t.sent = d.sent /\ t.c.target = 0 /\ t.c.desired = batch
      /\ t.c.guard = c.guard /\ t.c.count = c.count /\ Watching(c, t.c)
  BY <1>1, <1>3, RetargetEffect, SignalType DEF Dispatched, Recorded, Watching
<1>5. OnlyZeros(Now, t)
  BY <1>2, <1>3, <1>4 DEF Dispatched, OnlyZeros
<1> HIDE DEF t
<1>6. ~c.guard /\ ~Activates("NEUTRALIZE")
  BY DEF Blocks
<1>7. Coherent(t.c)
  BY <1>2, <1>4, <1>6 DEF Coherent
<1>8. EffectInv => Resolved(t.c, unproven)
  <2>1. ASSUME EffectInv, unproven # "none" PROVE FALSE
    <3>1. Pending(c, unproven) /\ unproven \in Active
      BY <2>1, <1>6 DEF EffectInv, Resolved, CommandInv, TypeOK
    <3> QED
      BY <3>1, <1>6 DEF Pending, Activates, Active
  <2> QED
    BY <2>1 DEF Resolved
<1> QED
  BY <1>4, <1>5, <1>6, <1>7, <1>8, AdoptStep DEF t, d, batch

\* A zero target without force_zero.
LEMMA UnforcedStep ==
  ASSUME CommandInv, ~Blocks("NEUTRALIZE"), Adopt([Now EXCEPT !.c.target = 0]),
         UNCHANGED <<newer, unproven>>
  PROVE  Step
<1> DEFINE t == [Now EXCEPT !.c.target = 0]
<1>1. Now \in States /\ Now.c = c /\ c \in Controllers
  BY NowType DEF CommandInv
<1>2. /\ t \in States /\ t.sent = Now.sent /\ t.c.target = 0 /\ t.c.desired = c.desired
      /\ t.c.guard = c.guard /\ t.c.count = c.count /\ Watching(c, t.c)
  BY <1>1, RetargetEffect, SignalType
<1>3. OnlyZeros(Now, t)
  BY <1>2 DEF OnlyZeros
<1> HIDE DEF t
<1>4. ~c.guard /\ ~Activates("NEUTRALIZE")
  BY DEF Blocks
<1>5. Coherent(t.c)
  BY <1>2, <1>4 DEF Coherent, CommandInv
<1>6. EffectInv => Resolved(t.c, unproven)
  <2>1. ASSUME EffectInv, unproven # "none" PROVE FALSE
    <3>1. Pending(c, unproven) /\ unproven \in Active
      BY <2>1, <1>4 DEF EffectInv, Resolved, CommandInv, TypeOK
    <3> QED
      BY <3>1, <1>4 DEF Pending, Activates, Active
  <2> QED
    BY <2>1 DEF Resolved
<1> QED
  BY <1>2, <1>3, <1>4, <1>5, <1>6, AdoptStep DEF t

\* An active target that is dispatched.
LEMMA CommandStep ==
  ASSUME CommandInv, NEW w \in Signals \ {0}, ~Blocks(Intent(w)), NEW u \in BOOLEAN,
         Adopt(Dispatch([Now EXCEPT !.c.target = w, !.c.uncertain = u], Batch(w), "normal")),
         UNCHANGED <<newer, unproven>>
  PROVE  Step
<1> DEFINE batch == Batch(w)
           k == [c EXCEPT !.target = w, !.uncertain = u]
           n == [Now EXCEPT !.c.target = w, !.c.uncertain = u]
           t == Dispatch(n, batch, "normal")
<1>1. Now \in States /\ Now.c = c /\ Now.sent = sent /\ c \in Controllers
  BY NowType DEF CommandInv
<1>2. /\ Sound(batch) /\ batch # NoBatch /\ Signed(batch) = w
      /\ batch.intent = Intent(w) /\ Intent(w) \in Active
  <2>1. Sound(batch) /\ Signed(batch) = w /\ batch.intent = Intent(w) /\ Intent(w) \in Active
    BY BatchType
  <2> QED
    BY <2>1 DEF NoBatch, Active
<1> HIDE DEF batch
<1>3. /\ k \in Controllers /\ k.target = w /\ k.desired = c.desired /\ k.mismatch = c.mismatch
      /\ k.guard = c.guard /\ k.count = c.count /\ Watching(c, k)
  BY <1>1 DEF Controllers, Watching
<1>4. n = [Now EXCEPT !.c = k]
  BY <1>1 DEF States
<1> HIDE DEF k, n
<1>5. n \in States /\ n.c = k /\ n.sent = sent
  BY <1>1, <1>3, <1>4 DEF States
<1>6. Dispatched(n, t, batch)
  BY <1>2, <1>5, DispatchEffect
<1> HIDE DEF t
<1>7. /\ t \in States /\ t.c.target = w /\ t.c.desired = batch /\ ~t.c.neutralizing
      /\ t.c.mismatch = MismatchAfter(c.desired, batch, c.mismatch)
      /\ t.c.guard = c.guard /\ t.c.count = c.count /\ Watching(c, t.c)
  BY <1>2, <1>3, <1>5, <1>6 DEF Dispatched, Recorded, Watching
<1>8. ~c.guard /\ ~Activates(Intent(w))
  BY DEF Blocks
<1>9. c.guard \/ ~FlashActive => OnlyZeros(Now, t)
  BY <1>1, <1>5, <1>6, <1>8 DEF Dispatched, OnlyZeros
<1>10. Coherent(t.c)
  BY <1>2, <1>7, <1>8 DEF Coherent
<1>11. EffectInv => Resolved(t.c, unproven)
  <2>1. ASSUME EffectInv, unproven # "none" PROVE Pending(t.c, unproven)
    <3>1. Pending(c, unproven) /\ unproven \in Active
      BY <2>1, <1>8 DEF EffectInv, Resolved, CommandInv, TypeOK
    <3>2. Intent(w) = unproven /\ c.desired.intent = unproven
      BY <3>1, <1>8 DEF Pending, Activates
    <3>3. t.c.mismatch
      BY <3>1, <3>2, <1>2, <1>7 DEF MismatchAfter, Pending
    <3> QED
      BY <3>1, <3>2, <3>3, <1>2, <1>7 DEF Pending, Watching
  <2> QED
    BY <2>1 DEF Resolved
<1> QED
  BY <1>7, <1>8, <1>9, <1>10, <1>11, AdoptStep DEF t, n, batch

\* Every step of the control path is a step, and leaves the environment alone.
LEMMA ControlIsStep ==
  ASSUME CommandInv, Control
  PROVE  Step /\ UNCHANGED <<device, power, rb, snap, held, mqtt, sight, seen, newer>>
           /\ phase' \in {"apply", "control", "monitor"}
<1>1. Now \in States /\ Now.c = c /\ Now.sent = sent /\ c \in Controllers /\ c.lastMode \in Modes
  <2>1. Now \in States /\ Now.c = c /\ Now.sent = sent /\ c \in Controllers
    BY NowType DEF CommandInv
  <2> QED
    BY <2>1 DEF Controllers
<1>2. phase \in {"apply", "control", "monitor"}
  BY DEF CommandInv, TypeOK
<1>3. Watching(c, c)
  BY DEF Watching
<1>4. ASSUME NEW w \in Signals \ {0}, Target(w)
      PROVE  Step /\ UNCHANGED env /\ phase' = "monitor"
  <2>1. UNCHANGED <<newer, unproven>> /\ UNCHANGED env /\ phase' = "monitor"
    BY <1>4 DEF Target, ControlStep, env
  <2>2. CASE Blocks(Intent(w))
    <3>1. Adopt([Blocked(Now, Intent(w)) EXCEPT !.c.target = 0])
      BY <1>4, <2>2 DEF Target, ControlStep, TargetAfterBlock
    <3> QED
      BY <1>1, <1>3, <2>1, <2>2, <3>1, BlockedStep
  <2>3. CASE ~Blocks(Intent(w))
    <3> DEFINE u == c.uncertain \/ mqtt # "ok"
    <3>1. Adopt(Dispatch([Now EXCEPT !.c.target = w, !.c.uncertain = u], Batch(w), "normal"))
      BY <1>1, <1>4, <2>3 DEF Target, ControlStep, Now
    <3>2. u \in BOOLEAN
      OBVIOUS
    <3> HIDE DEF u
    <3> QED
      BY <2>1, <2>3, <3>1, <3>2, CommandStep
  <2> QED
    BY <2>1, <2>2, <2>3
<1>5. ASSUME NEW w \in Watts
      PROVE  w \in Signals \ {0} /\ -w \in Signals \ {0}
  <2>1. w \in Nat /\ w # 0 /\ w \in Power
    BY CommandAssumption DEF CommandAssumption, Power
  <2> QED
    BY <2>1 DEF Signals
<1>6. ASSUME NEW force \in BOOLEAN, Zero(force)
      PROVE  Step /\ UNCHANGED env /\ phase' = "monitor"
  <2>1. UNCHANGED <<newer, unproven>> /\ UNCHANGED env /\ phase' = "monitor"
    BY <1>6 DEF Zero, ControlStep, env
  <2>2. CASE Blocks("NEUTRALIZE")
    <3>1. Adopt([Blocked(Now, "NEUTRALIZE") EXCEPT !.c.target = 0])
      BY <1>6, <2>2 DEF Zero, ControlStep
    <3> QED
      BY <1>1, <1>3, <2>1, <2>2, <3>1, BlockedStep
  <2>3. CASE ~Blocks("NEUTRALIZE") /\ force
    <3>1. Adopt([Dispatch(Now, Neutral(c.lastMode), "neutralization") EXCEPT !.c.target = 0])
      BY <1>6, <2>3 DEF Zero, ControlStep
    <3> QED
      BY <1>1, <2>1, <2>3, <3>1, NeutralStep
  <2>4. CASE ~Blocks("NEUTRALIZE") /\ ~force
    <3>1. Adopt([Now EXCEPT !.c.target = 0])
      BY <1>6, <2>4 DEF Zero, ControlStep
    <3> QED
      BY <2>1, <2>4, <3>1, UnforcedStep
  <2> QED
    BY <2>1, <2>2, <2>3, <2>4
<1>7. ASSUME Adopt(Neutralized), UNCHANGED <<newer, unproven>>
      PROVE  Step
  <2>1. CASE Blocks("NEUTRALIZE")
    <3>1. Adopt([Blocked(Now, "NEUTRALIZE") EXCEPT !.c.target = 0])
      BY <1>7, <2>1 DEF Neutralized
    <3> QED
      BY <1>1, <1>3, <1>7, <2>1, <3>1, BlockedStep
  <2>2. CASE ~Blocks("NEUTRALIZE")
    <3>1. Adopt([Dispatch(Now, Neutral(NeutralMode), "neutralization") EXCEPT !.c.target = 0])
      BY <1>7, <2>2 DEF Neutralized
    <3>2. NeutralMode \in Modes
      BY <1>1 DEF NeutralMode, Modes
    <3> QED
      BY <1>7, <2>2, <3>1, <3>2, NeutralStep
  <2> QED
    BY <2>1, <2>2
<1>8. ASSUME Hold
      PROVE  Step /\ UNCHANGED env /\ phase' = "monitor"
  <2>1. UNCHANGED <<newer, unproven>> /\ UNCHANGED env /\ phase' = "monitor" /\ Adopt(Now)
    BY <1>8 DEF Hold, ControlStep, env
  <2>2. OnlyZeros(Now, Now)
    BY DEF OnlyZeros
  <2> QED
    BY <1>1, <1>3, <2>1, <2>2, AdoptStep DEF CommandInv, EffectInv
<1>9. CASE Neutralize
  BY <1>7, <1>9 DEF Neutralize, ControlStep, env
<1>10. CASE NightEnds
  BY <1>2, <1>7, <1>10 DEF NightEnds, env
<1>11. CASE DisconnectedSafeState
  BY <1>7, <1>11 DEF DisconnectedSafeState, env
<1> QED
  BY <1>4, <1>5, <1>6, <1>8, <1>9, <1>10, <1>11 DEF Control, env

-----------------------------------------------------------------------------
(* The monitor *)

LEMMA WithController ==
  ASSUME NEW s \in States, NEW k \in Controllers
  PROVE  LET t == [s EXCEPT !.c = k] IN t \in States /\ t.c = k /\ t.sent = s.sent
BY DEF States

\* A step of the monitor: the general form.
LEMMA MonitorStep ==
  ASSUME CommandInv, NEW s \in States, Adopt(s),
         unproven' \in Active \cup {"none"}, newer' \in BOOLEAN,
         Coherent(s.c), Aged(c) => Aged(s.c),
         s.c.count > 0 => s.c.guard,
         newer' => s.c.count > 0 /\ looked,
         s.c.count = 2 => looked,
         c.guard /\ ~s.c.guard => looked,
         c.guard \/ ~FlashActive => OnlyZeros(Now, s),
         EffectInv => Resolved(s.c, unproven')
  PROVE  Step
<1>1. /\ c' = s.c /\ sent' = s.sent /\ c' \in Controllers /\ sent' \in Messages
      /\ looked' = (looked /\ s.c.guard)
  BY DEF Adopt, States
<1>2. looked \in BOOLEAN /\ s.c.guard \in BOOLEAN /\ s.c.count \in 0..2
  BY DEF CommandInv, TypeOK, States, Controllers
<1>3. CountInv'
  BY <1>1, <1>2 DEF CountInv
<1>4. c.guard \/ ~FlashActive => \A p \in Limits : sent'[p] \in {sent[p], 0}
  BY <1>1 DEF OnlyZeros, Now
<1> QED
  BY <1>1, <1>2, <1>3, <1>4 DEF Step

\* What the monitor evaluates: the state after a possible resync.
Ready(r) ==
  /\ r \in States /\ Coherent(r.c)
  /\ r.c.target = c.target /\ r.c.guard = c.guard /\ r.c.count = c.count
  /\ Watching(c, r.c)
  /\ r.c.desired = c.desired \/ (c.target = 0 /\ r.c.desired.intent = "NEUTRALIZE")
  /\ r.c.neutralizing => c.target = 0
  /\ c.guard \/ ~FlashActive => OnlyZeros(Now, r)
  /\ EffectInv => Resolved(r.c, unproven)

\* A forced resend keeps a state ready.
LEMMA ResendReady ==
  ASSUME CommandInv, NEW s, Ready(s)
  PROVE  /\ Ready(ForceResend(s))
         /\ c.target # 0 => ForceResend(s).c.mismatch = s.c.mismatch
<1> DEFINE t == ForceResend(s)
<1>1. s \in States /\ Coherent(s.c) /\ s.c \in Controllers
  BY DEF Ready, States
<1>2. PICK batch :
           /\ Dispatched(s, t, batch)
           /\ Sound(batch) /\ batch # NoBatch /\ Signed(batch) = s.c.target
           /\ batch = s.c.desired \/ (s.c.target = 0 /\ batch.intent = "NEUTRALIZE")
  BY <1>1, ResendEffect
<1> HIDE DEF t
<1>3. /\ t \in States /\ t.c.desired = batch /\ t.c.target = s.c.target
      /\ t.c.guard = s.c.guard /\ t.c.count = s.c.count /\ Watching(s.c, t.c)
      /\ t.c.mismatch = MismatchAfter(s.c.desired, batch, s.c.mismatch)
      /\ t.c.neutralizing = (batch.intent \notin Active)
  BY <1>2 DEF Dispatched, Recorded, Watching
<1>4. \/ batch.intent = "NEUTRALIZE" /\ Signed(batch) = 0
      \/ batch.intent \in Active /\ Signed(batch) # 0
  BY <1>2, SoundCases
<1>5. s.c.guard => s.c.target = 0
  BY <1>1 DEF Coherent
<1>6. Coherent(t.c)
  BY <1>2, <1>3, <1>4, <1>5 DEF Coherent, Active
<1>7. s.c.target # 0 => t.c.mismatch = s.c.mismatch
  BY <1>1, <1>2, <1>3 DEF MismatchAfter, Controllers
<1>8. c.guard \/ ~FlashActive => OnlyZeros(Now, t)
  <2>1. c.guard \/ ~FlashActive => OnlyZeros(s, t)
    BY <1>2, <1>4, <1>5 DEF Dispatched, Ready, Active
  <2> QED
    BY <2>1, ZerosTwice DEF Ready
<1>9. EffectInv => Resolved(t.c, unproven)
  <2> SUFFICES ASSUME Resolved(s.c, unproven), unproven # "none", ~s.c.guard
               PROVE  Pending(t.c, unproven)
    BY <1>3 DEF Ready, Resolved
  <2>1. Pending(s.c, unproven) /\ unproven \in Active
    BY DEF Resolved, CommandInv, TypeOK
  <2>2. s.c.target # 0
    BY <2>1 DEF Pending, Intent, Active
  <2> QED
    BY <2>1, <2>2, <1>2, <1>3, <1>7 DEF Pending, Watching
<1> QED
  BY <1>2, <1>3, <1>4, <1>6, <1>7, <1>8, <1>9 DEF Ready, Watching, t

\* Fields a ready state may change without ceasing to be ready.
LEMMA StaysReady ==
  ASSUME CommandInv, NEW s, Ready(s), NEW k \in Controllers,
         k.target = s.c.target, k.guard = s.c.guard, k.count = s.c.count,
         Watching(s.c, k), k.desired = s.c.desired, k.mismatch = s.c.mismatch,
         k.neutralizing = s.c.neutralizing \/ c.target = 0
  PROVE  Ready([s EXCEPT !.c = k])
<1> DEFINE t == [s EXCEPT !.c = k]
<1>1. t \in States /\ t.c = k /\ t.sent = s.sent
  BY WithController DEF Ready
<1> HIDE DEF t
<1>2. Coherent(k)
  BY DEF Coherent, Ready
<1>3. OnlyZeros(Now, s) => OnlyZeros(Now, t)
  BY <1>1 DEF OnlyZeros
<1>4. Resolved(s.c, unproven) => Resolved(k, unproven)
  <2>1. unproven \in Active /\ Pending(s.c, unproven) => c.target # 0
    BY DEF Pending, Intent, Active, Ready
  <2> QED
    BY <2>1 DEF Resolved, Pending, Watching, CommandInv, TypeOK
<1> QED
  BY <1>1, <1>2, <1>3, <1>4 DEF Ready, Watching, t

\* The state the monitor evaluates is ready, whether it was sent again or not.
LEMMA ResyncedReady ==
  ASSUME CommandInv, NEW resync \in BOOLEAN
  PROVE  Ready(Resynced(resync))
<1>1. Now \in States /\ Now.c = c /\ c \in Controllers /\ Coherent(c)
  BY NowType DEF CommandInv
<1>2. Ready(Now)
  <2>1. OnlyZeros(Now, Now) /\ Watching(c, c)
    BY DEF OnlyZeros, Watching
  <2> QED
    BY <1>1, <2>1 DEF Ready, Coherent, EffectInv
<1> DEFINE k1 == [c EXCEPT !.neutralizing = TRUE, !.since = "running"]
           e1 == [Now EXCEPT !.c.neutralizing = TRUE, !.c.since = "running"]
           s1 == IF UncertainZero THEN e1 ELSE Now
           s2 == IF resync THEN [ForceResend(s1) EXCEPT !.c.resend = FALSE] ELSE s1
           st == IF mqtt = "ok" THEN "ok" ELSE "bad"
           s3 == [s2 EXCEPT !.c.lastStatus = st]
<1>3. Ready(s1)
  <2>1. k1 \in Controllers
    BY <1>1 DEF Controllers, Timers
  <2>2. /\ k1.target = c.target /\ k1.guard = c.guard /\ k1.count = c.count
        /\ Watching(c, k1) /\ k1.desired = c.desired /\ k1.mismatch = c.mismatch
    BY <1>1 DEF Controllers, Watching
  <2>3. e1 = [Now EXCEPT !.c = k1]
    BY <1>1 DEF States
  <2> HIDE DEF k1, e1
  <2>4. UncertainZero => Ready(e1)
    BY <1>1, <1>2, <2>1, <2>2, <2>3, StaysReady DEF UncertainZero
  <2> QED
    BY <1>2, <2>4
<1> HIDE DEF s1
<1>4. Ready(s2)
  <2> DEFINE f == ForceResend(s1)
             k == [f.c EXCEPT !.resend = FALSE]
             t == [f EXCEPT !.c.resend = FALSE]
  <2>1. Ready(f)
    BY <1>3, ResendReady
  <2> HIDE DEF f
  <2>2. f \in States /\ f.c \in Controllers
    BY <2>1 DEF Ready, States
  <2>3. k \in Controllers
    BY <2>2 DEF Controllers
  <2>4. /\ k.target = f.c.target /\ k.guard = f.c.guard /\ k.count = f.c.count
        /\ Watching(f.c, k) /\ k.desired = f.c.desired /\ k.mismatch = f.c.mismatch
        /\ k.neutralizing = f.c.neutralizing
    BY <2>2 DEF Controllers, Watching
  <2>5. t = [f EXCEPT !.c = k]
    BY <2>2 DEF States
  <2> HIDE DEF k, t
  <2>6. Ready(t)
    BY <2>1, <2>3, <2>4, <2>5, StaysReady
  <2> QED
    BY <1>3, <2>6 DEF t, f
<1> HIDE DEF s2
<1>5. Ready(s3)
  <2> DEFINE k == [s2.c EXCEPT !.lastStatus = st]
  <2>1. s2 \in States /\ s2.c \in Controllers
    BY <1>4 DEF Ready, States
  <2>2. k \in Controllers
    BY <2>1 DEF Controllers
  <2>3. /\ k.target = s2.c.target /\ k.guard = s2.c.guard /\ k.count = s2.c.count
        /\ Watching(s2.c, k) /\ k.desired = s2.c.desired /\ k.mismatch = s2.c.mismatch
        /\ k.neutralizing = s2.c.neutralizing
    BY <2>1 DEF Controllers, Watching
  <2>4. s3 = [s2 EXCEPT !.c = k]
    BY <2>1 DEF States
  <2> HIDE DEF k, s3
  <2> QED
    BY <1>4, <2>2, <2>3, <2>4, StaysReady
<1>6. Resynced(resync) = s3
  BY DEF Resynced, s3, s2, s1
<1> QED
  BY <1>5, <1>6

\* A monitor step that leaves the guard and its count alone.
LEMMA KeepStep ==
  ASSUME CommandInv, NEW s \in States, NEW u \in Active \cup {"none"}, MonitorEnds(s, u),
         UNCHANGED newer, Coherent(s.c), s.c.guard = c.guard, s.c.count = c.count,
         Aged(c) => Aged(s.c), c.guard \/ ~FlashActive => OnlyZeros(Now, s),
         EffectInv => Resolved(s.c, u)
  PROVE  Step
<1>1. Adopt(s) /\ unproven' = u /\ newer' = newer
  BY DEF MonitorEnds
<1>2. CountInv /\ newer \in BOOLEAN
  BY DEF CommandInv, TypeOK
<1> QED
  BY <1>1, <1>2, MonitorStep DEF CountInv

\* In particular one that changes nothing a ready state is judged by.
LEMMA ReadyStep ==
  ASSUME CommandInv, NEW s, Ready(s), MonitorEnds(s, unproven), UNCHANGED newer
  PROVE  Step
<1>1. /\ s \in States /\ Coherent(s.c) /\ s.c.guard = c.guard /\ s.c.count = c.count
      /\ Aged(c) => Aged(s.c)
  BY DEF Ready, Aged, Watching
<1>2. unproven \in Active \cup {"none"}
  BY DEF CommandInv, TypeOK
<1> QED
  BY <1>1, <1>2, KeepStep DEF Ready

\* Under the guard: it lets go, counts, or starts over.
LEMMA GuardStep ==
  ASSUME CommandInv, NEW r, Ready(r), c.guard, EvaluateGuard(r)
  PROVE  Step
<1> DEFINE k == [r.c EXCEPT !.neutralizing = TRUE, !.since = Started(@)]
           s == [r EXCEPT !.c.neutralizing = TRUE, !.c.since = Started(@)]
<1>1. /\ r \in States /\ r.c \in Controllers /\ Coherent(r.c) /\ r.c.guard /\ r.c.target = 0
      /\ c.target = 0 /\ CountInv /\ c.count \in 0..2 /\ unproven \in Active \cup {"none"}
      /\ newer \in BOOLEAN
  BY DEF Ready, States, Coherent, CommandInv, TypeOK, Controllers
<1>2. Ready(s)
  <2>1. k \in Controllers
    BY <1>1 DEF Controllers, Timers, Started
  <2>2. /\ k.target = r.c.target /\ k.guard = r.c.guard /\ k.count = r.c.count
        /\ Watching(r.c, k) /\ k.desired = r.c.desired /\ k.mismatch = r.c.mismatch
    BY <1>1 DEF Controllers, Watching
  <2>3. s = [r EXCEPT !.c = k]
    BY DEF States, Ready
  <2> HIDE DEF k, s
  <2> QED
    BY <1>1, <2>1, <2>2, <2>3, StaysReady
<1>3. newer' = FALSE
  BY DEF EvaluateGuard
<1> HIDE DEF s
<1>4. /\ s \in States /\ s.c \in Controllers /\ Coherent(s.c) /\ s.c.guard /\ s.c.target = 0
      /\ s.c.desired.intent = "NEUTRALIZE" /\ Watching(c, s.c) /\ OnlyZeros(Now, s)
      /\ s.c.lastMode \in Modes
  BY <1>1, <1>2 DEF Ready, States, Coherent, Controllers
<1>5. ASSUME NEW t \in States, Adopt(t), unproven' \in {unproven, "none"},
             Coherent(t.c), Watching(c, t.c), OnlyZeros(Now, t),
             t.c.count > 0 => t.c.guard, t.c.count = 2 => looked,
             t.c.guard \/ (unproven' = "none" /\ looked)
      PROVE  Step
  <2>1. Aged(c) => Aged(t.c)
    BY <1>5 DEF Aged, Watching
  <2>2. EffectInv => Resolved(t.c, unproven')
    BY <1>5 DEF Resolved
  <2> QED
    BY <1>1, <1>3, <1>5, <2>1, <2>2, MonitorStep
<1>6. CASE GuardNeutral /\ GuardRelease
  <2> DEFINE kt == [s.c EXCEPT !.guard = FALSE, !.guardDue = FALSE, !.count = 0,
                               !.stable = FALSE, !.mismatch = FALSE,
                               !.neutralizing = FALSE, !.since = "none"]
             t == [s EXCEPT !.c.guard = FALSE, !.c.guardDue = FALSE, !.c.count = 0,
                            !.c.stable = FALSE, !.c.mismatch = FALSE,
                            !.c.neutralizing = FALSE, !.c.since = "none"]
  <2>1. MonitorEnds(t, "none")
    BY <1>6 DEF EvaluateGuard, s
  <2>2. kt \in Controllers
    <3> DEFINE k1 == [s.c EXCEPT !.guard = FALSE, !.guardDue = FALSE, !.count = 0, !.stable = FALSE]
    <3>1. k1 \in Controllers
      <4>1. PICK part : part = [s.c EXCEPT !.guard = FALSE, !.guardDue = FALSE]
        OBVIOUS
      <4>2. part \in Controllers
        BY <1>4, <4>1 DEF Controllers
      <4>3. k1 = [part EXCEPT !.count = 0, !.stable = FALSE]
        BY <4>1
      <4> HIDE DEF k1
      <4> QED
        BY <4>2, <4>3, 0 \in 0..2 DEF Controllers
    <3> DEFINE k2 == [k1 EXCEPT !.mismatch = FALSE, !.neutralizing = FALSE]
    <3>2. kt = [k2 EXCEPT !.since = "none"]
      OBVIOUS
    <3> HIDE DEF k1
    <3>3. k2 \in Controllers
      BY <3>1 DEF Controllers
    <3> HIDE DEF k2, kt
    <3> QED
      BY <3>2, <3>3 DEF Controllers, Timers
  <2>3. /\ kt.target = s.c.target /\ ~kt.guard /\ kt.count = 0 /\ ~kt.neutralizing
        /\ Watching(s.c, kt) /\ kt.desired = s.c.desired
    BY <1>4 DEF Controllers, Watching
  <2>4. t = [s EXCEPT !.c = kt]
    BY <1>4 DEF States
  <2> HIDE DEF kt, t
  <2>5. t \in States /\ t.c = kt /\ t.sent = s.sent
    BY <1>4, <2>2, <2>4, WithController
  <2>6. Coherent(kt)
    BY <1>4, <2>3 DEF Coherent
  <2>7. looked
    BY <1>1, <1>6 DEF GuardRelease, Counted, CountInv
  <2>8. Watching(c, t.c) /\ OnlyZeros(Now, t)
    BY <1>4, <2>3, <2>5 DEF Watching, OnlyZeros
  <2> QED
    BY <1>5, <2>1, <2>3, <2>5, <2>6, <2>7, <2>8 DEF MonitorEnds
<1>7. CASE GuardNeutral /\ ~GuardRelease
  <2> DEFINE kt == [s.c EXCEPT !.count = Counted, !.mismatch = FALSE]
             t == [s EXCEPT !.c.count = Counted, !.c.mismatch = FALSE]
  <2>1. MonitorEnds(t, unproven)
    BY <1>7 DEF EvaluateGuard, s
  <2>2. Counted \in 0..2 /\ (Counted = 2 => looked)
    BY <1>1 DEF Counted, CountInv
  <2> HIDE DEF Counted
  <2>3. kt \in Controllers
    BY <1>4, <2>2 DEF Controllers
  <2>4. /\ kt.target = s.c.target /\ kt.guard = s.c.guard /\ kt.count = Counted
        /\ kt.neutralizing = s.c.neutralizing /\ Watching(s.c, kt) /\ kt.desired = s.c.desired
    BY <1>4 DEF Controllers, Watching
  <2>5. t = [s EXCEPT !.c = kt]
    BY <1>4 DEF States
  <2> HIDE DEF kt, t
  <2>6. t \in States /\ t.c = kt /\ t.sent = s.sent
    BY <1>4, <2>3, <2>5, WithController
  <2>7. Coherent(kt)
    BY <1>4, <2>4 DEF Coherent
  <2>8. Watching(c, t.c) /\ OnlyZeros(Now, t)
    BY <1>4, <2>4, <2>6 DEF Watching, OnlyZeros
  <2> QED
    BY <1>4, <1>5, <2>1, <2>2, <2>4, <2>6, <2>7, <2>8 DEF MonitorEnds
<1>8. CASE ~GuardNeutral
  <2> DEFINE kl == [s.c EXCEPT !.count = 0, !.stable = FALSE, !.mismatch = @ \/ s.c.guardDue]
             late == [s EXCEPT !.c.count = 0, !.c.stable = FALSE, !.c.mismatch = @ \/ s.c.guardDue]
             batch == Neutral(late.c.lastMode)
             d == Dispatch(late, batch, "late_effect_guard_resync")
             kt == [d.c EXCEPT !.neutralResend = FALSE]
             t == [d EXCEPT !.c.neutralResend = FALSE]
  <2>1. MonitorEnds(t, unproven) \/ MonitorEnds(late, unproven)
    BY <1>8 DEF EvaluateGuard, s
  <2>2. kl \in Controllers
    <3>1. PICK mismatch : mismatch = (s.c.mismatch \/ s.c.guardDue)
      OBVIOUS
    <3>2. mismatch \in BOOLEAN
      BY <3>1
    <3>3. PICK part : part = [s.c EXCEPT !.count = 0, !.stable = FALSE]
      OBVIOUS
    <3>4. part \in Controllers
      BY <1>4, <3>3, 0 \in 0..2 DEF Controllers
    <3>5. kl = [part EXCEPT !.mismatch = mismatch]
      BY <1>4, <3>1, <3>3 DEF Controllers
    <3> HIDE DEF kl
    <3> QED
      BY <3>2, <3>4, <3>5 DEF Controllers
  <2>3. /\ kl.target = s.c.target /\ kl.guard = s.c.guard /\ kl.count = 0
        /\ kl.neutralizing = s.c.neutralizing /\ Watching(s.c, kl) /\ kl.desired = s.c.desired
        /\ kl.lastMode = s.c.lastMode
    BY <1>4 DEF Controllers, Watching
  <2>4. late = [s EXCEPT !.c = kl]
    BY <1>4 DEF States
  <2> HIDE DEF kl, late
  <2>5. late \in States /\ late.c = kl /\ late.sent = s.sent
    BY <1>4, <2>2, <2>4, WithController
  <2>6. Coherent(kl)
    BY <1>4, <2>3 DEF Coherent
  <2>7. Watching(c, late.c) /\ OnlyZeros(Now, late)
    BY <1>4, <2>3, <2>5 DEF Watching, OnlyZeros
  <2>8. ASSUME MonitorEnds(late, unproven) PROVE Step
    <3>1. Adopt(late) /\ unproven' = unproven
      BY <2>8 DEF MonitorEnds
    <3>2. late.c.count = 0
      BY <2>3, <2>5
    <3>3. ~(late.c.count > 0) /\ late.c.count # 2
      BY <3>2
    <3>4. late.c.guard
      BY <1>4, <2>3, <2>5
    <3> QED
      BY <1>5, <2>5, <2>6, <2>7, <3>1, <3>3, <3>4
  <2>9. /\ Sound(batch) /\ batch # NoBatch /\ Signed(batch) = 0
        /\ batch.intent = "NEUTRALIZE"
    BY <1>4, <2>3, <2>5, NeutralType
  <2> HIDE DEF batch
  <2>10. Dispatched(late, d, batch)
    BY <2>5, <2>9, DispatchEffect
  <2> HIDE DEF d
  <2>11. /\ d \in States /\ d.c \in Controllers /\ d.c.desired = batch /\ d.c.target = 0
         /\ d.c.guard /\ d.c.count = 0 /\ Watching(c, d.c) /\ OnlyZeros(Now, d)
    BY <1>4, <2>3, <2>5, <2>7, <2>9, <2>10, ZerosTwice DEF Dispatched, Recorded, Watching, States
  <2>12. kt \in Controllers
    BY <2>11 DEF Controllers
  <2>13. /\ kt.target = d.c.target /\ kt.guard = d.c.guard /\ kt.count = d.c.count
         /\ kt.neutralizing = d.c.neutralizing /\ Watching(d.c, kt) /\ kt.desired = d.c.desired
    BY <2>11 DEF Controllers, Watching
  <2>14. t = [d EXCEPT !.c = kt]
    BY <2>11 DEF States
  <2> HIDE DEF kt, t
  <2>15. t \in States /\ t.c = kt /\ t.sent = d.sent
    BY <2>11, <2>12, <2>14, WithController
  <2>16. Coherent(kt)
    BY <2>9, <2>11, <2>13 DEF Coherent
  <2>17. Watching(c, t.c) /\ OnlyZeros(Now, t)
    BY <2>11, <2>13, <2>15 DEF Watching, OnlyZeros
  <2>18. ASSUME MonitorEnds(t, unproven) PROVE Step
    <3>1. Adopt(t) /\ unproven' = unproven
      BY <2>18 DEF MonitorEnds
    <3>2. t.c.count = 0
      BY <2>11, <2>13, <2>15
    <3>3. ~(t.c.count > 0) /\ t.c.count # 2
      BY <3>2
    <3>4. t.c.guard
      BY <2>11, <2>13, <2>15
    <3> QED
      BY <1>5, <2>15, <2>16, <2>17, <3>1, <3>3, <3>4
  <2> QED
    BY <2>1, <2>8, <2>18
<1> QED
  BY <1>6, <1>7, <1>8

\* A neutralization under observation: confirmed, waited for or sent again.
LEMMA NeutralWatchStep ==
  ASSUME CommandInv, NEW r, Ready(r), ~c.guard, c.target = 0, EvaluateNeutral(r), UNCHANGED newer
  PROVE  Step
<1> DEFINE k == [r.c EXCEPT !.since = Started(@)]
           s == [r EXCEPT !.c.since = Started(@)]
<1>1. r \in States /\ r.c \in Controllers /\ unproven \in Active \cup {"none"}
  BY DEF Ready, States, CommandInv, TypeOK
<1>2. Ready(s)
  <2>1. k \in Controllers
    BY <1>1 DEF Controllers, Timers, Started
  <2>2. /\ k.target = r.c.target /\ k.guard = r.c.guard /\ k.count = r.c.count
        /\ Watching(r.c, k) /\ k.desired = r.c.desired /\ k.mismatch = r.c.mismatch
    BY <1>1 DEF Controllers, Watching
  <2>3. s = [r EXCEPT !.c = k]
    BY <1>1 DEF States
  <2> HIDE DEF k, s
  <2> QED
    BY <2>1, <2>2, <2>3, StaysReady
<1> HIDE DEF s
<1>3. s \in States /\ s.c \in Controllers
  BY <1>2 DEF Ready, States
<1>4. EffectInv => unproven = "none"
  BY <1>1 DEF EffectInv, Resolved, Pending, Intent, Active
<1>5. ASSUME NEW t, Ready(t), NEW e \in Controllers, MonitorEnds([t EXCEPT !.c = e], "none")
             \/ MonitorEnds([t EXCEPT !.c = e], unproven),
             e.target = t.c.target, e.guard = t.c.guard, e.count = t.c.count,
             Watching(t.c, e), e.desired = t.c.desired
      PROVE  Step
  <2> DEFINE z == [t EXCEPT !.c = e]
  <2>1. z \in States /\ z.c = e /\ z.sent = t.sent
    BY <1>5, WithController DEF Ready
  <2> HIDE DEF z
  <2>2. Coherent(e)
    BY <1>5 DEF Coherent, Ready
  <2>3. (c.guard \/ ~FlashActive => OnlyZeros(Now, z)) /\ (Aged(c) => Aged(e))
    BY <1>5, <2>1 DEF Ready, OnlyZeros, Aged, Watching
  <2>4. e.guard = c.guard /\ e.count = c.count
    BY <1>5 DEF Ready
  <2>5. PICK u \in {"none", unproven} : MonitorEnds(z, u)
    BY <1>5 DEF z
  <2>6. EffectInv => Resolved(e, u)
    BY <1>4 DEF Resolved
  <2> QED
    BY <1>1, <2>1, <2>2, <2>3, <2>4, <2>5, <2>6, KeepStep
<1>6. CASE NeutralSeen
  <2> DEFINE e == [s.c EXCEPT !.mismatch = FALSE, !.neutralizing = FALSE,
                              !.since = "none", !.uncertain = FALSE]
             t == [s EXCEPT !.c.mismatch = FALSE, !.c.neutralizing = FALSE,
                            !.c.since = "none", !.c.uncertain = FALSE]
  <2>1. MonitorEnds(t, "none")
    BY <1>6 DEF EvaluateNeutral, s
  <2>2. e \in Controllers
    BY <1>3 DEF Controllers, Timers
  <2>3. /\ e.target = s.c.target /\ e.guard = s.c.guard /\ e.count = s.c.count
        /\ Watching(s.c, e) /\ e.desired = s.c.desired
    BY <1>3 DEF Controllers, Watching
  <2>4. t = [s EXCEPT !.c = e]
    BY <1>3 DEF States
  <2> HIDE DEF e, t
  <2> QED
    BY <1>2, <1>5, <2>1, <2>2, <2>3, <2>4
<1>7. CASE ~NeutralSeen
  <2> DEFINE late == [s EXCEPT !.c.mismatch = TRUE]
             el == [s.c EXCEPT !.mismatch = TRUE]
             again == [late EXCEPT !.c.target = 0]
             f == ForceResend(again)
             e == [f.c EXCEPT !.target = s.c.target, !.neutralResend = FALSE]
             t == [f EXCEPT !.c.target = s.c.target, !.c.neutralResend = FALSE]
  <2>1. MonitorEnds(s, unproven) \/ MonitorEnds(late, unproven) \/ MonitorEnds(t, unproven)
    BY <1>7 DEF EvaluateNeutral, s
  <2>2. s.c.target = 0
    BY <1>2 DEF Ready
  <2>3. el \in Controllers
    BY <1>3 DEF Controllers
  <2>4. /\ el.target = s.c.target /\ el.guard = s.c.guard /\ el.count = s.c.count
        /\ Watching(s.c, el) /\ el.desired = s.c.desired /\ el.neutralizing = s.c.neutralizing
    BY <1>3 DEF Controllers, Watching
  <2>5. late = [s EXCEPT !.c = el]
    BY <1>3 DEF States
  <2> HIDE DEF el, late
  <2>6. late \in States /\ late.c = el /\ late.sent = s.sent
    BY <1>3, <2>3, <2>5, WithController
  <2>7. Ready(late)
    <3>1. Coherent(el)
      BY <1>2, <2>4 DEF Coherent, Ready
    <3>2. EffectInv => Resolved(el, unproven)
      BY <1>4 DEF Resolved
    <3> QED
      BY <1>2, <2>4, <2>6, <3>1, <3>2 DEF Ready, Watching, OnlyZeros
  <2>8. again = late
    <3>1. late.c.target = 0 /\ late.c \in Controllers
      BY <2>2, <2>3, <2>4, <2>6
    <3>2. [late.c EXCEPT !.target = 0] = late.c
      BY <3>1 DEF Controllers
    <3>3. again = [late EXCEPT !.c = [late.c EXCEPT !.target = 0]]
      BY <2>6 DEF States
    <3>4. [late EXCEPT !.c = late.c] = late
      BY <2>6 DEF States
    <3> QED
      BY <3>2, <3>3, <3>4
  <2> HIDE DEF again
  <2>9. Ready(f)
    BY <2>7, <2>8, ResendReady
  <2> HIDE DEF f
  <2>10. f \in States /\ f.c \in Controllers /\ f.c.target = 0
    BY <2>9 DEF Ready, States
  <2>11. e \in Controllers
    BY <2>2, <2>10, SignalType DEF Controllers
  <2>12. /\ e.target = f.c.target /\ e.guard = f.c.guard /\ e.count = f.c.count
         /\ Watching(f.c, e) /\ e.desired = f.c.desired
    BY <2>2, <2>10 DEF Controllers, Watching
  <2>13. t = [f EXCEPT !.c = e]
    BY <2>10 DEF States
  <2> HIDE DEF e, t
  <2>14. ASSUME MonitorEnds(t, unproven) PROVE Step
    BY <1>5, <2>9, <2>11, <2>12, <2>13, <2>14
  <2>15. ASSUME MonitorEnds(late, unproven) PROVE Step
    BY <2>7, <2>15, ReadyStep
  <2>16. ASSUME MonitorEnds(s, unproven) PROVE Step
    BY <1>2, <2>16, ReadyStep
  <2> QED
    BY <2>1, <2>14, <2>15, <2>16
<1> QED
  BY <1>6, <1>7

\* A controller under an active target, as the evaluation changes it.
Judged(s) ==
  /\ s \in States /\ Coherent(s.c) /\ s.c.guard = c.guard /\ s.c.count = c.count
  /\ s.c.target = c.target /\ s.c.desired = c.desired /\ ~s.c.neutralizing
  /\ Aged(c) => Aged(s.c)
  /\ ~FlashActive => OnlyZeros(Now, s)

LEMMA JudgedStep ==
  ASSUME CommandInv, ~c.guard, NEW s, Judged(s), NEW u \in Active \cup {"none"},
         MonitorEnds(s, u), UNCHANGED newer,
         EffectInv => Resolved(s.c, u)
  PROVE  Step
BY KeepStep DEF Judged

\* Timers and marks of an active target change, its command does not.
LEMMA StaysJudged ==
  ASSUME NEW s, Judged(s), NEW k \in Controllers,
         k.target = s.c.target, k.guard = s.c.guard, k.count = s.c.count,
         k.desired = s.c.desired, k.neutralizing = s.c.neutralizing, Aged(c) => Aged(k)
  PROVE  LET t == [s EXCEPT !.c = k] IN Judged(t) /\ t.c = k
<1> DEFINE t == [s EXCEPT !.c = k]
<1>1. t \in States /\ t.c = k /\ t.sent = s.sent
  BY WithController DEF Judged
<1> HIDE DEF t
<1>2. Coherent(k)
  BY DEF Judged, Coherent
<1> QED
  BY <1>1, <1>2 DEF Judged, OnlyZeros, t

\* Timers that start keep their order.
LEMMA AgedStarts ==
  ASSUME NEW a \in Timers, NEW b \in Timers, Older[a] <= Older[b]
  PROVE  /\ Older[a] <= Older[Started(b)]
         /\ Older[Started(a)] <= Older[Started(b)]
         /\ Overdue(a) => Overdue(b)
         /\ Overdue(b) => Started(b) = b
BY DEF Timers, Older, Started, Overdue

\* A mismatch that lasts is sent again.
LEMMA MismatchStep ==
  ASSUME CommandInv, ~c.guard, NEW s, Judged(s), NEW age, NEW intent \in Active,
         c.target # 0, c.desired.intent = intent, Intent(c.target) = intent,
         s.c.watch = intent, Aged(c) => Overdue(s.c.watchAge),
         Mismatched(s, age, intent), UNCHANGED newer
  PROVE  Step
<1> DEFINE k == [s.c EXCEPT !.mismatch = TRUE]
           t == [s EXCEPT !.c.mismatch = TRUE]
           f == ForceResend(t)
           e == [f.c EXCEPT !.resend = FALSE]
           z == [f EXCEPT !.c.resend = FALSE]
<1>1. s \in States /\ s.c \in Controllers
  BY DEF Judged, States
<1>2. k \in Controllers
  BY <1>1 DEF Controllers
<1>3. /\ k.target = s.c.target /\ k.guard = s.c.guard /\ k.count = s.c.count
      /\ k.desired = s.c.desired /\ k.neutralizing = s.c.neutralizing
      /\ Watching(s.c, k) /\ k.mismatch
  BY <1>1 DEF Controllers, Watching
<1>4. t = [s EXCEPT !.c = k]
  BY <1>1 DEF States
<1>5. MonitorEnds(z, intent) \/ MonitorEnds(t, intent)
  BY DEF Mismatched
<1> HIDE DEF k, t
<1>6. Aged(c) => Aged(k)
  BY <1>3 DEF Aged, Watching, Judged
<1>7. Judged(t) /\ t.c = k
  BY <1>2, <1>3, <1>4, <1>6, StaysJudged
<1>8. ASSUME NEW x, Judged(x), Watching(s.c, x.c), x.c.mismatch, MonitorEnds(x, intent)
      PROVE  Step
  <2>1. EffectInv => Pending(x.c, intent)
    BY <1>8 DEF EffectInv, Pending, Judged, Watching
  <2> QED
    BY <1>8, <2>1, JudgedStep DEF Resolved
<1>9. t \in States /\ Coherent(t.c) /\ t.c.target # 0
  BY <1>7 DEF Judged
<1>10. PICK batch :
           /\ Dispatched(t, f, batch)
           /\ Sound(batch) /\ batch # NoBatch /\ Signed(batch) = t.c.target
           /\ batch = t.c.desired \/ (t.c.target = 0 /\ batch.intent = "NEUTRALIZE")
  BY <1>9, ResendEffect
<1> HIDE DEF f
<1>11. /\ f \in States /\ f.c \in Controllers /\ f.c.desired = c.desired /\ f.c.target = c.target
       /\ f.c.guard = c.guard /\ f.c.count = c.count /\ Watching(s.c, f.c)
       /\ ~f.c.neutralizing /\ f.c.mismatch
  BY <1>3, <1>7, <1>9, <1>10 DEF Dispatched, Recorded, Watching, Judged, States, MismatchAfter
<1>12. Judged(f)
  <2>1. Coherent(f.c)
    BY <1>9, <1>11, <1>7 DEF Coherent, Judged
  <2>2. ~FlashActive => OnlyZeros(Now, f)
    BY <1>7, <1>10, ZerosTwice DEF Judged, Dispatched
  <2>3. Aged(c) => Aged(f.c)
    BY <1>11 DEF Aged, Watching, Judged
  <2> QED
    BY <1>11, <2>1, <2>2, <2>3 DEF Judged
<1>13. e \in Controllers
  BY <1>11 DEF Controllers
<1>14. /\ e.target = f.c.target /\ e.guard = f.c.guard /\ e.count = f.c.count
       /\ e.desired = f.c.desired /\ e.neutralizing = f.c.neutralizing
       /\ Watching(f.c, e) /\ e.mismatch = f.c.mismatch
  BY <1>11 DEF Controllers, Watching
<1>15. z = [f EXCEPT !.c = e]
  BY <1>11 DEF States
<1> HIDE DEF e, z
<1>16. Judged(z) /\ z.c = e
  <2>1. Aged(c) => Aged(e)
    BY <1>12, <1>14 DEF Aged, Watching, Judged
  <2> QED
    BY <1>12, <1>13, <1>14, <1>15, <2>1, StaysJudged
<1>17. ASSUME MonitorEnds(z, intent) PROVE Step
  <2>1. Watching(s.c, z.c) /\ z.c.mismatch
    BY <1>11, <1>14, <1>16 DEF Watching
  <2> QED
    BY <1>8, <1>16, <1>17, <2>1
<1>18. ASSUME MonitorEnds(t, intent) PROVE Step
  BY <1>3, <1>7, <1>8, <1>18
<1> QED
  BY <1>5, <1>17, <1>18

\* An active target under observation.
LEMMA ActiveStep ==
  ASSUME CommandInv, ~c.guard, NEW r, Ready(r), NEW intent \in Active, c.target # 0,
         c.desired.intent = intent, Intent(c.target) = intent, r.c.desired = c.desired,
         ~r.c.neutralizing, EvaluateActive(r, intent), UNCHANGED newer
  PROVE  Step
<1> DEFINE target == r.c.target
           kn == [r.c EXCEPT !.watch = intent, !.watchAge = "running",
                             !.trackAge = "none", !.mismatch = FALSE]
           ko == [r.c EXCEPT !.watchAge = Started(@)]
           kw == IF r.c.watch # intent THEN kn ELSE ko
           watched == IF r.c.watch # intent
                      THEN [r EXCEPT !.c.watch = intent, !.c.watchAge = "running",
                                     !.c.trackAge = "none", !.c.mismatch = FALSE]
                      ELSE [r EXCEPT !.c.watchAge = Started(@)]
           same == SignOf(seen) = SignOf(target)
           ks == [watched.c EXCEPT !.trackAge = Started(@)]
           s == IF same THEN [watched EXCEPT !.c.trackAge = Started(@)] ELSE watched
           age == IF same THEN s.c.trackAge ELSE s.c.watchAge
<1>1. /\ r \in States /\ r.c \in Controllers /\ r.c.watchAge \in Timers /\ r.c.trackAge \in Timers
      /\ r.c.target = c.target /\ Watching(c, r.c) /\ unproven \in Active \cup {"none"}
  <2>1. r \in States /\ r.c \in Controllers
    BY DEF Ready, States
  <2> QED
    BY <2>1 DEF Ready, Controllers, CommandInv, TypeOK
<1>2. Judged(r)
  BY <1>1 DEF Ready, Judged, Aged, Watching
<1>3. Older["none"] <= Older["running"] /\ Older["running"] <= Older["running"]
  BY DEF Older
<1>4. kw \in Controllers
  <2>1. kn \in Controllers
    BY <1>1 DEF Controllers, Timers
  <2>2. ko \in Controllers
    BY <1>1 DEF Controllers, Timers, Started
  <2> QED
    BY <2>1, <2>2
<1>5. /\ kw.target = r.c.target /\ kw.guard = r.c.guard /\ kw.count = r.c.count
      /\ kw.desired = r.c.desired /\ kw.neutralizing = r.c.neutralizing
      /\ kw.watch = intent
      /\ r.c.watch # intent => kw.watchAge = "running" /\ kw.trackAge = "none"
      /\ r.c.watch = intent => /\ kw.watchAge = Started(r.c.watchAge) /\ kw.trackAge = r.c.trackAge
  BY <1>1 DEF Controllers
<1>6. watched = [r EXCEPT !.c = kw]
  BY <1>1 DEF States
<1> HIDE DEF kw, watched
<1>7. Aged(c) => Aged(kw)
  BY <1>1, <1>3, <1>5, AgedStarts DEF Aged, Watching
<1>8. Judged(watched) /\ watched.c = kw
  BY <1>2, <1>4, <1>5, <1>6, <1>7, StaysJudged
<1>9. Judged(s) /\ s.c.watch = intent /\ s.c.watchAge = kw.watchAge
      /\ s.c.trackAge = IF same THEN Started(kw.trackAge) ELSE kw.trackAge
  <2>1. CASE ~same
    BY <1>5, <1>8, <2>1
  <2>2. CASE same
    <3>1. kw.trackAge \in Timers /\ kw.watchAge \in Timers
      BY <1>4 DEF Controllers
    <3>2. ks \in Controllers
      BY <1>4, <1>8, <3>1 DEF Controllers, Timers, Started
    <3>3. /\ ks.target = kw.target /\ ks.guard = kw.guard /\ ks.count = kw.count
          /\ ks.desired = kw.desired /\ ks.neutralizing = kw.neutralizing
          /\ ks.watch = kw.watch /\ ks.watchAge = kw.watchAge /\ ks.trackAge = Started(kw.trackAge)
      BY <1>4, <1>8 DEF Controllers
    <3>4. s = [watched EXCEPT !.c = ks]
      BY <1>8, <2>2 DEF Judged, States
    <3>5. kw.watchAge # "none"
      BY <1>5 DEF Started
    <3>6. Started(kw.watchAge) = kw.watchAge
      BY <3>5 DEF Started
    <3> HIDE DEF ks, s
    <3>7. Aged(c) => Aged(ks)
      BY <1>7, <3>1, <3>3, <3>6, AgedStarts DEF Aged
    <3>8. Judged(s) /\ s.c = ks
      BY <1>8, <3>2, <3>3, <3>4, <3>7, StaysJudged
    <3> QED
      BY <1>5, <2>2, <3>3, <3>8
  <2> QED
    BY <2>1, <2>2
<1>10. ASSUME NEW t, Judged(t), NEW e \in Controllers, NEW u \in {"none", unproven},
              e.target = t.c.target, e.guard = t.c.guard, e.count = t.c.count,
              e.desired = t.c.desired, e.neutralizing = t.c.neutralizing, Aged(c) => Aged(e),
              EffectInv => u = "none",
              MonitorEnds([t EXCEPT !.c = e], u)
       PROVE  Step
  <2> DEFINE z == [t EXCEPT !.c = e]
  <2>1. Judged(z) /\ z.c = e
    BY <1>10, StaysJudged
  <2> HIDE DEF z
  <2>2. u \in Active \cup {"none"}
    BY <1>1
  <2> QED
    BY <1>10, <2>1, <2>2, JudgedStep DEF Resolved, z
<1> HIDE DEF s
<1>11. s \in States /\ s.c \in Controllers /\ watched \in States
  BY <1>8, <1>9 DEF Judged, States
<1>12. CASE MonitorEnds([watched EXCEPT !.c.trackAge = "none", !.c.watchAge = "none",
                                        !.c.mismatch = FALSE, !.c.uncertain = FALSE], "none")
  <2> DEFINE e == [watched.c EXCEPT !.trackAge = "none", !.watchAge = "none",
                                    !.mismatch = FALSE, !.uncertain = FALSE]
             t == [watched EXCEPT !.c.trackAge = "none", !.c.watchAge = "none",
                                  !.c.mismatch = FALSE, !.c.uncertain = FALSE]
  <2>1. e \in Controllers
    BY <1>4, <1>8 DEF Controllers, Timers
  <2>2. /\ e.target = kw.target /\ e.guard = kw.guard /\ e.count = kw.count
        /\ e.desired = kw.desired /\ e.neutralizing = kw.neutralizing
        /\ e.trackAge = "none" /\ e.watchAge = "none"
    BY <1>4, <1>8 DEF Controllers
  <2>3. t = [watched EXCEPT !.c = e]
    BY <1>11 DEF States
  <2>4. MonitorEnds(t, "none")
    BY <1>12
  <2> HIDE DEF e, t
  <2>5. Aged(e)
    BY <2>2 DEF Aged, Older
  <2> QED
    BY <1>8, <1>10, <2>1, <2>2, <2>3, <2>4, <2>5
<1>13. CASE MonitorEnds([watched EXCEPT !.c.trackAge = "none", !.c.watchAge = "running",
                                        !.c.mismatch = FALSE], "none")
  <2> DEFINE e == [watched.c EXCEPT !.trackAge = "none", !.watchAge = "running", !.mismatch = FALSE]
             t == [watched EXCEPT !.c.trackAge = "none", !.c.watchAge = "running",
                                  !.c.mismatch = FALSE]
  <2>1. e \in Controllers
    BY <1>4, <1>8 DEF Controllers, Timers
  <2>2. /\ e.target = kw.target /\ e.guard = kw.guard /\ e.count = kw.count
        /\ e.desired = kw.desired /\ e.neutralizing = kw.neutralizing
        /\ e.trackAge = "none" /\ e.watchAge = "running"
    BY <1>4, <1>8 DEF Controllers
  <2>3. t = [watched EXCEPT !.c = e]
    BY <1>11 DEF States
  <2>4. MonitorEnds(t, "none")
    BY <1>13
  <2> HIDE DEF e, t
  <2>5. Aged(e)
    BY <2>2 DEF Aged, Older
  <2> QED
    BY <1>8, <1>10, <2>1, <2>2, <2>3, <2>4, <2>5
<1>14. CASE ~Overdue(age) /\ MonitorEnds([s EXCEPT !.c.mismatch = FALSE],
                                        IF same THEN "none" ELSE unproven)
  <2> DEFINE e == [s.c EXCEPT !.mismatch = FALSE]
             t == [s EXCEPT !.c.mismatch = FALSE]
  <2>1. e \in Controllers
    BY <1>11 DEF Controllers
  <2>2. /\ e.target = s.c.target /\ e.guard = s.c.guard /\ e.count = s.c.count
        /\ e.desired = s.c.desired /\ e.neutralizing = s.c.neutralizing
        /\ e.trackAge = s.c.trackAge /\ e.watchAge = s.c.watchAge
    BY <1>11 DEF Controllers
  <2>3. t = [s EXCEPT !.c = e]
    BY <1>11 DEF States
  <2> DEFINE u == IF same THEN "none" ELSE unproven
  <2>4. MonitorEnds(t, u)
    BY <1>14
  <2> HIDE DEF e, t
  <2>5. Aged(c) => Aged(e)
    BY <1>9, <2>2 DEF Aged, Judged
  <2>6. EffectInv => u = "none"
    <3> SUFFICES ASSUME Resolved(r.c, unproven), ~same, unproven # "none" PROVE FALSE
      BY DEF Ready
    <3>1. unproven = intent /\ r.c.watch = intent /\ Overdue(r.c.watchAge)
      BY DEF Resolved, Pending, Ready
    <3>2. age = Started(r.c.watchAge)
      BY <1>5, <1>9, <3>1
    <3> QED
      BY <1>14, <3>1, <3>2 DEF Started, Overdue
  <2> HIDE DEF u
  <2>7. u \in {"none", unproven}
    BY DEF u
  <2> QED
    BY <1>9, <1>10, <2>1, <2>2, <2>3, <2>4, <2>5, <2>6, <2>7
<1>15. CASE Overdue(age) /\ Mismatched(s, age, intent)
  <2>1. Aged(c) => Overdue(s.c.watchAge)
    <3>1. s.c.watchAge \in Timers /\ s.c.trackAge \in Timers
      BY <1>11 DEF Controllers
    <3>2. Aged(c) => Older[s.c.trackAge] <= Older[s.c.watchAge]
      BY <1>9 DEF Judged, Aged
    <3> QED
      BY <1>15, <3>1, <3>2, AgedStarts
  <2> QED
    BY <1>9, <1>15, <2>1, MismatchStep
<1> QED
  BY <1>12, <1>13, <1>14, <1>15 DEF EvaluateActive, s, watched

\* With a target, the monitor evaluates the active command it belongs to.
LEMMA EvaluatedActive ==
  ASSUME CommandInv, c.target # 0
  PROVE  /\ Evaluated = c.desired.intent /\ Evaluated \in Active
         /\ Intent(c.target) = c.desired.intent
<1>1. Coherent(c)
  BY DEF CommandInv
<1>2. ~c.neutralizing /\ c.target = Signed(c.desired) /\ Sound(c.desired)
  BY <1>1 DEF Coherent
<1>3. c.desired # NoBatch /\ c.desired.intent \in Active /\ Intent(Signed(c.desired)) = c.desired.intent
  BY <1>2, SoundCases
<1> QED
  BY <1>2, <1>3 DEF Evaluated, UncertainZero, MonitorIntent

\* A watch that ends without a verdict.
LEMMA EndWatchStep ==
  ASSUME CommandInv, ~c.guard, NEW r, Ready(r), NEW x \in Active \cup {"IDLE"},
         NEW u \in {"none", unproven}, EffectInv => u = "none",
         MonitorEnds([r EXCEPT !.c.watch = x, !.c.watchAge = "none", !.c.trackAge = "none",
                               !.c.mismatch = FALSE], u),
         UNCHANGED newer
  PROVE  Step
<1> DEFINE e == [r.c EXCEPT !.watch = x, !.watchAge = "none", !.trackAge = "none", !.mismatch = FALSE]
           t == [r EXCEPT !.c.watch = x, !.c.watchAge = "none", !.c.trackAge = "none",
                          !.c.mismatch = FALSE]
<1>1. r \in States /\ r.c \in Controllers /\ u \in Active \cup {"none"}
  BY DEF Ready, States, CommandInv, TypeOK
<1>2. e \in Controllers
  BY <1>1 DEF Controllers, Timers
<1>3. /\ e.target = r.c.target /\ e.guard = r.c.guard /\ e.count = r.c.count
      /\ e.desired = r.c.desired /\ e.neutralizing = r.c.neutralizing
      /\ e.trackAge = "none" /\ e.watchAge = "none"
  BY <1>1 DEF Controllers
<1>4. t = [r EXCEPT !.c = e]
  BY <1>1 DEF States
<1>5. MonitorEnds(t, u)
  OBVIOUS
<1> HIDE DEF e, t
<1>6. t \in States /\ t.c = e /\ t.sent = r.sent
  BY <1>1, <1>2, <1>4, WithController
<1>7. Coherent(e) /\ Aged(e)
  BY <1>3 DEF Coherent, Ready, Aged, Older
<1>8. c.guard \/ ~FlashActive => OnlyZeros(Now, t)
  BY <1>6 DEF Ready, OnlyZeros
<1>9. EffectInv => Resolved(e, u)
  BY DEF Resolved
<1> QED
  BY <1>1, <1>3, <1>5, <1>6, <1>7, <1>8, <1>9, KeepStep DEF Ready

\* The evaluation of a valid power observation.
LEMMA EvaluateStep ==
  ASSUME CommandInv, NEW r, Ready(r), Evaluate(r, Evaluated)
  PROVE  Step
<1> DEFINE k == [r.c EXCEPT !.paused = FALSE]
           s == [r EXCEPT !.c.paused = FALSE]
<1>1. /\ r \in States /\ r.c \in Controllers /\ r.c.guard = c.guard /\ r.c.target = c.target
      /\ c \in Controllers /\ unproven \in Active \cup {"none"}
  BY DEF Ready, States, CommandInv, TypeOK
<1>2. ASSUME NEW t, Ready(t), NEW b \in BOOLEAN
      PROVE  LET z == [t EXCEPT !.c.paused = b]
             IN Ready(z) /\ z.c.guard = t.c.guard /\ z.c.target = t.c.target
  <2> DEFINE e == [t.c EXCEPT !.paused = b]
             z == [t EXCEPT !.c.paused = b]
  <2>1. t \in States /\ t.c \in Controllers
    BY <1>2 DEF Ready, States
  <2>2. e \in Controllers
    BY <2>1 DEF Controllers
  <2>3. /\ e.target = t.c.target /\ e.guard = t.c.guard /\ e.count = t.c.count
        /\ Watching(t.c, e) /\ e.desired = t.c.desired /\ e.mismatch = t.c.mismatch
        /\ e.neutralizing = t.c.neutralizing
    BY <2>1 DEF Controllers, Watching
  <2>4. z = [t EXCEPT !.c = e]
    BY <2>1 DEF States
  <2> HIDE DEF e, z
  <2>5. Ready(z)
    BY <1>2, <2>2, <2>3, <2>4, StaysReady
  <2>6. z.c = e
    BY <2>1, <2>2, <2>4, WithController
  <2> QED
    BY <2>3, <2>5, <2>6 DEF z
<1>3. Ready(s) /\ s.c.guard = c.guard /\ s.c.target = c.target
  BY <1>1, <1>2
<1>4. CASE c.guard
  <2>1. EvaluateGuard(s)
    BY <1>1, <1>4 DEF Evaluate
  <2> HIDE DEF s
  <2> QED
    BY <1>3, <1>4, <2>1, GuardStep
<1>5. CASE ~c.guard
  <2>1. UNCHANGED newer
    BY <1>1, <1>5 DEF Evaluate
  <2>2. CASE Evaluated = "NEUTRALIZE"
    <3>1. EvaluateNeutral(s)
      BY <1>1, <1>5, <2>2 DEF Evaluate
    <3>2. c.target = 0
      BY <2>2, EvaluatedActive DEF Active
    <3> HIDE DEF s
    <3> QED
      BY <1>3, <1>5, <2>1, <3>1, <3>2, NeutralWatchStep
  <2>3. CASE Evaluated # "NEUTRALIZE" /\ sight = "conflict"
    <3>1. MonitorEnds([s EXCEPT !.c.paused = TRUE], unproven)
      BY <1>1, <1>5, <2>3 DEF Evaluate
    <3> HIDE DEF s
    <3>2. Ready([s EXCEPT !.c.paused = TRUE])
      BY <1>2, <1>3
    <3> QED
      BY <2>1, <3>1, <3>2, ReadyStep
  <2>4. CASE Evaluated # "NEUTRALIZE" /\ sight # "conflict" /\ (Evaluated = "IDLE" \/ c.target = 0)
    <3>1. c.target = 0
      BY <2>4, EvaluatedActive DEF Active
    <3>2. MonitorEnds([s EXCEPT !.c.watch = "IDLE", !.c.watchAge = "none",
                                !.c.trackAge = "none", !.c.mismatch = FALSE], unproven)
      BY <1>1, <1>3, <1>5, <2>4 DEF Evaluate
    <3>3. EffectInv => unproven = "none"
      BY <1>1, <1>5, <3>1 DEF EffectInv, Resolved, Pending, Intent, Active
    <3> HIDE DEF s
    <3> QED
      BY <1>3, <1>5, <2>1, <3>2, <3>3, EndWatchStep
  <2>5. CASE Evaluated # "NEUTRALIZE" /\ sight # "conflict" /\ Evaluated # "IDLE" /\ c.target # 0
    <3>1. /\ Evaluated = c.desired.intent /\ Evaluated \in Active
          /\ Intent(c.target) = c.desired.intent
      BY <2>5, EvaluatedActive
    <3>2. CASE Distance(c.target, 0) < MinTarget
      <4>1. SmallTarget(s, Evaluated)
        BY <1>1, <1>3, <1>5, <2>5, <3>2 DEF Evaluate
      <4> HIDE DEF s
      <4> QED
        BY <1>3, <1>5, <2>1, <3>1, <4>1, EndWatchStep DEF SmallTarget
    <3>3. CASE ~(Distance(c.target, 0) < MinTarget)
      <4>1. EvaluateActive(s, Evaluated)
        BY <1>1, <1>3, <1>5, <2>5, <3>3 DEF Evaluate
      <4> HIDE DEF s
      <4>2. s.c.desired = c.desired /\ ~s.c.neutralizing
        BY <1>3, <2>5 DEF Ready
      <4> QED
        BY <1>3, <1>5, <2>1, <2>5, <3>1, <4>1, <4>2, ActiveStep
    <3> QED
      BY <3>2, <3>3
  <2> QED
    BY <2>2, <2>3, <2>4, <2>5
<1> QED
  BY <1>4, <1>5

\* Every step of the monitor is a step, and leaves the environment alone.
LEMMA MonitorIsStep ==
  ASSUME CommandInv, Monitor
  PROVE  Step /\ UNCHANGED <<device, power, rb, snap, held, mqtt, sight, seen>>
           /\ phase' \in {"apply", "control", "monitor"}
<1>1. UNCHANGED <<device, power, rb, snap, held, mqtt, sight, seen>>
      /\ phase' \in {"apply", "control", "monitor"}
  BY DEF Monitor, CycleStart
<1>2. CASE UNCHANGED <<c, sent, newer, unproven, looked>>
  <2>1. Now \in States /\ Now.c = c /\ Now.sent = sent /\ c \in Controllers
    BY NowType DEF CommandInv
  <2>2. looked \in BOOLEAN /\ newer \in BOOLEAN /\ unproven \in Active \cup {"none"}
    BY DEF CommandInv, TypeOK
  <2>3. Coherent(c') /\ CountInv' /\ (Aged(c) => Aged(c'))
    BY <1>2 DEF CommandInv, CountInv
  <2>4. c' \in Controllers /\ sent' \in Messages
    BY <1>2, <2>1 DEF States
  <2>5. EffectInv => Resolved(c', unproven')
    BY <1>2 DEF EffectInv
  <2> QED
    BY <1>1, <1>2, <2>2, <2>3, <2>4, <2>5 DEF Step
<1>3. ASSUME NEW resync \in BOOLEAN, TelemetryValid, Evaluate(Resynced(resync), Evaluated)
      PROVE  Step
  BY <1>3, ResyncedReady, EvaluateStep
<1>4. ASSUME NEW resync \in BOOLEAN, newer' = FALSE,
             MonitorEnds([Resynced(resync) EXCEPT !.c.paused = TRUE, !.c.count = 0,
                                                  !.c.stable = FALSE], unproven)
      PROVE  Step
  <2> DEFINE r == Resynced(resync)
             e == [r.c EXCEPT !.paused = TRUE, !.count = 0, !.stable = FALSE]
             t == [r EXCEPT !.c.paused = TRUE, !.c.count = 0, !.c.stable = FALSE]
  <2>1. MonitorEnds(t, unproven)
    BY <1>4
  <2>2. Ready(r)
    BY <1>4, ResyncedReady
  <2> HIDE DEF r
  <2>3. r \in States /\ r.c \in Controllers /\ unproven \in Active \cup {"none"}
    BY <2>2 DEF Ready, States, CommandInv, TypeOK
  <2>4. e \in Controllers
    BY <2>3, 0 \in 0..2 DEF Controllers
  <2>5. /\ e.target = r.c.target /\ e.guard = r.c.guard /\ e.count = 0
        /\ e.desired = r.c.desired /\ e.neutralizing = r.c.neutralizing
        /\ Watching(r.c, e) /\ e.mismatch = r.c.mismatch
    BY <2>3 DEF Controllers, Watching
  <2>6. t = [r EXCEPT !.c = e]
    BY <2>3 DEF States
  <2> HIDE DEF e, t
  <2>7. t \in States /\ t.c = e /\ t.sent = r.sent
    BY <2>3, <2>4, <2>6, WithController
  <2>8. Coherent(t.c) /\ (Aged(c) => Aged(t.c))
    BY <2>2, <2>5, <2>7 DEF Ready, Coherent, Aged, Watching
  <2>9. c.guard \/ ~FlashActive => OnlyZeros(Now, t)
    BY <2>2, <2>7 DEF Ready, OnlyZeros
  <2>10. EffectInv => Resolved(t.c, unproven)
    BY <2>2, <2>5, <2>7 DEF Ready, Resolved, Pending, Watching
  <2>11. ~(t.c.count > 0) /\ t.c.count # 2 /\ t.c.guard = c.guard
    BY <2>2, <2>5, <2>7 DEF Ready
  <2>12. Adopt(t) /\ unproven' = unproven
    BY <2>1 DEF MonitorEnds
  <2> QED
    BY <1>4, <2>3, <2>7, <2>8, <2>9, <2>10, <2>11, <2>12, MonitorStep
<1>5. MayResync \in BOOLEAN
  BY DEF MayResync
<1> QED
  BY <1>1, <1>2, <1>3, <1>4, <1>5 DEF Monitor

-----------------------------------------------------------------------------
(* Time, the device and the connection *)

\* A time limit runs out: a step that changes a flag or the age of a timer.
LEMMA TimeIsStep ==
  ASSUME CommandInv, Time
  PROVE  Step /\ UNCHANGED <<sent, env, phase, looked>>
<1>1. UNCHANGED <<sent, env, phase, history>>
  BY DEF Time
<1>2. /\ c \in Controllers /\ Coherent(c) /\ CountInv /\ sent \in Messages
      /\ looked \in BOOLEAN /\ newer \in BOOLEAN /\ unproven \in Active \cup {"none"}
  BY DEF CommandInv, TypeOK
<1>3. ASSUME c' \in Controllers, c'.guard = c.guard, c'.count = c.count, c'.target = c.target,
             c'.desired = c.desired, c'.neutralizing = c.neutralizing,
             c'.mismatch = c.mismatch, c'.watch = c.watch,
             Aged(c) => Aged(c'), Overdue(c.watchAge) => Overdue(c'.watchAge)
      PROVE  Step
  <2>1. Coherent(c')
    BY <1>2, <1>3 DEF Coherent
  <2>2. CountInv'
    BY <1>1, <1>2, <1>3 DEF CountInv, env, history
  <2>3. EffectInv => Resolved(c', unproven')
    BY <1>1, <1>3 DEF EffectInv, Resolved, Pending, history
  <2> QED
    BY <1>1, <1>2, <1>3, <2>1, <2>2, <2>3 DEF Step, env, history
<1>4. ASSUME NEW field \in {"due", "resend", "neutralResend", "guardDue", "stable"}, Elapses(field)
      PROVE  Step
  <2>1. c' = [c EXCEPT ![field] = TRUE]
    BY <1>4 DEF Elapses
  <2>2. c' \in Controllers
    BY <1>2, <2>1 DEF Controllers
  <2>3. /\ c'.guard = c.guard /\ c'.count = c.count /\ c'.target = c.target
        /\ c'.desired = c.desired /\ c'.neutralizing = c.neutralizing
        /\ c'.mismatch = c.mismatch /\ c'.watch = c.watch
        /\ c'.watchAge = c.watchAge /\ c'.trackAge = c.trackAge
    BY <1>2, <2>1 DEF Controllers
  <2> QED
    BY <1>3, <2>2, <2>3 DEF Aged
<1>5. ASSUME NEW field \in {"since", "watchAge", "trackAge"}, Ages(field),
             field = "trackAge" => Older[c.trackAge] < Older[c.watchAge]
      PROVE  Step
  <2>1. c' = [c EXCEPT ![field] = After(c[field])] /\ c[field] \in {"running", "timeout"}
    BY <1>5 DEF Ages
  <2>2. After(c[field]) \in Timers /\ Older[After(c[field])] = Older[c[field]] + 1
        /\ Overdue(After(c[field]))
    BY <2>1 DEF After, Timers, Older, Overdue
  <2>3. c' \in Controllers
    BY <1>2, <2>1, <2>2 DEF Controllers
  <2>4. /\ c'.guard = c.guard /\ c'.count = c.count /\ c'.target = c.target
        /\ c'.desired = c.desired /\ c'.neutralizing = c.neutralizing
        /\ c'.mismatch = c.mismatch /\ c'.watch = c.watch
        /\ c'.watchAge = IF field = "watchAge" THEN After(c[field]) ELSE c.watchAge
        /\ c'.trackAge = IF field = "trackAge" THEN After(c[field]) ELSE c.trackAge
    BY <1>2, <2>1 DEF Controllers
  <2>5. \A a \in Timers : Older[a] \in Nat
    BY DEF Timers, Older
  <2>6. c.watchAge \in Timers /\ c.trackAge \in Timers
    BY <1>2 DEF Controllers
  <2>7. CASE field = "since"
    BY <1>3, <2>3, <2>4, <2>7 DEF Aged
  <2>8. CASE field = "watchAge"
    <3>1. c'.watchAge = After(c.watchAge) /\ Older[c'.watchAge] = Older[c.watchAge] + 1
          /\ c'.trackAge = c.trackAge /\ Overdue(c'.watchAge)
      BY <2>2, <2>4, <2>8
    <3>2. Aged(c) => Aged(c')
      BY <2>5, <2>6, <3>1 DEF Aged
    <3> QED
      BY <1>3, <2>3, <2>4, <3>1, <3>2
  <2>9. CASE field = "trackAge"
    <3>1. Older[c'.trackAge] = Older[c.trackAge] + 1 /\ c'.watchAge = c.watchAge
          /\ Older[c.trackAge] < Older[c.watchAge]
      BY <1>5, <2>2, <2>4, <2>9
    <3>2. Aged(c')
      BY <2>5, <2>6, <3>1 DEF Aged
    <3> QED
      BY <1>3, <2>3, <2>4, <3>1, <3>2
  <2> QED
    BY <2>7, <2>8, <2>9
<1>6. Step
  BY <1>4, <1>5 DEF Time, GateWindow, ResendInterval, NeutralResendInterval, GuardTimeout,
                    GuardStable, NeutralTimeout, ReactionTimeout, TrackingTimeout
<1> QED
  BY <1>1, <1>6 DEF history

LEMMA MergeType ==
  ASSUME NEW m \in Messages, NEW n \in Messages, NEW S
  PROVE  [p \in Props |-> IF p \in S THEN m[p] ELSE n[p]] \in Messages
<1> DEFINE f == [p \in Props |-> IF p \in S THEN m[p] ELSE n[p]]
<1>1. f = [smart |-> f["smart"], mode |-> f["mode"], in |-> f["in"], out |-> f["out"]]
  BY DEF Props
<1>2. f["smart"] \in {m["smart"], n["smart"]} /\ f["mode"] \in {m["mode"], n["mode"]}
      /\ f["in"] \in {m["in"], n["in"]} /\ f["out"] \in {m["out"], n["out"]}
  BY DEF Props
<1>3. m["smart"] \in {"none", "ON", "OFF"} /\ n["smart"] \in {"none", "ON", "OFF"}
      /\ m["mode"] \in {"none"} \cup Modes /\ n["mode"] \in {"none"} \cup Modes
      /\ {m["in"], n["in"], m["out"], n["out"]} \subseteq {-1} \cup Power
  BY DEF Messages
<1> HIDE DEF f
<1>4. f["smart"] \in {"none", "ON", "OFF"} /\ f["mode"] \in {"none"} \cup Modes
      /\ f["in"] \in {-1} \cup Power /\ f["out"] \in {-1} \cup Power
  BY <1>2, <1>3
<1>5. f \in Messages
  BY <1>1, <1>4 DEF Messages
<1> QED
  BY <1>5 DEF f

\* What the device and the connection do, beyond the types: the invariants
\* hold again, the controller stays as it is or starts afresh, messages arrive
\* or are lost but none is sent, and nothing is read of smartMode that the
\* device does not say or that was not read before.
Word == {"none", device["smart"], rb["smart"], snap["smart"], held["smart"]}
World ==
  /\ c' \in Controllers /\ {sent, device, rb, snap, held}' \subseteq Messages
  /\ power' \in Signals /\ seen' \in Signals
  /\ mqtt' \in {"down", "up", "ok"} /\ sight' \in {"stale", "clear", "conflict"}
  /\ phase' \in {"apply", "control", "monitor"}
  /\ unproven' \in Active \cup {"none"}
  /\ {newer, looked}' \subseteq BOOLEAN
  /\ Coherent(c') /\ CountInv' /\ DeviceInv'
  /\ \/ c' = c /\ unproven' = unproven
     \/ c' = FreshController /\ unproven' = "none"
  /\ \A p \in Limits : sent'[p] \in {sent[p], -1}
  /\ {rb'["smart"], snap'["smart"], held'["smart"]} \subseteq Word
  /\ mqtt # mqtt' /\ "down" \in {mqtt, mqtt'} => rb'["smart"] = "none"
  /\ \A p \in Limits : device'[p] # device[p] => device'[p] = sent[p]

LEMMA NothingType == Nothing \in Messages /\ Nothing["smart"] = "none"
                     /\ \A p \in Limits : Nothing[p] = -1
BY DEF Nothing, Messages, Limits

LEMMA FreshType ==
  /\ FreshController \in Controllers /\ Coherent(FreshController) /\ Aged(FreshController)
  /\ FreshController.count = 0 /\ ~FreshController.guard
<1> DEFINE k == FreshController
<1>1. /\ k.target = 0 /\ k.desired = NoBatch /\ k.lastMode = "OutputMode" /\ k.published = Nothing
      /\ k.gate = <<"none", "IDLE">> /\ k.due /\ k.neutralResend /\ k.resend
      /\ ~k.neutralizing /\ k.since = "none" /\ k.watch = "IDLE" /\ k.watchAge = "none"
      /\ k.trackAge = "none" /\ ~k.mismatch /\ ~k.uncertain /\ ~k.paused /\ k.lastStatus = "none"
      /\ ~k.guard /\ ~k.guardDue /\ k.count = 0 /\ ~k.stable
  BY DEF FreshController
<1>2. NoBatch \in Batches /\ Sound(NoBatch)
  BY SoundCases DEF Sound
<1>3. <<"none", "IDLE">> \in Gates /\ 0 \in Signals /\ 0 \in 0..2
  BY SignalType DEF Gates, Intents
<1>4. k \in Controllers
  BY <1>2, <1>3, NothingType DEF FreshController, Controllers, Modes, Timers
<1>5. Coherent(k) /\ Aged(k)
  BY <1>1, <1>2 DEF Coherent, Aged, Older
<1> QED
  BY <1>1, <1>4, <1>5

LEMMA EnvironmentIsWorld ==
  ASSUME CommandInv, Environment
  PROVE  World
<1>1. /\ c \in Controllers /\ sent \in Messages /\ device \in Messages /\ rb \in Messages
      /\ snap \in Messages /\ held \in Messages /\ power \in Signals /\ seen \in Signals
      /\ mqtt \in {"down", "up", "ok"} /\ sight \in {"stale", "clear", "conflict"}
      /\ phase \in {"apply", "control", "monitor"} /\ unproven \in Active \cup {"none"}
      /\ newer \in BOOLEAN /\ looked \in BOOLEAN
      /\ Coherent(c) /\ CountInv /\ DeviceInv /\ c.guard \in BOOLEAN
  BY DEF CommandInv, TypeOK, Controllers
<1>2. ASSUME NEW props, Deliver(props) PROVE World
  <2>1. UNCHANGED <<c, power, rb, snap, held, mqtt, sight, seen, newer, phase, history>>
        /\ sent' = Settled(props)
        /\ device' = [p \in Props |-> IF p \in props /\ sent[p] # Nothing[p] THEN sent[p] ELSE device[p]]
    BY <1>2 DEF Deliver
  <2>2. sent' \in Messages /\ \A p \in Limits : sent'[p] \in {sent[p], -1}
    BY <1>1, <2>1, NothingType, MergeType DEF Settled, Limits, Props
  <2>3. device' \in Messages
    <3> DEFINE S == {p \in props : sent[p] # Nothing[p]}
    <3>1. device' = [p \in Props |-> IF p \in S THEN sent[p] ELSE device[p]]
      BY <2>1
    <3> HIDE DEF S
    <3> QED
      BY <1>1, <3>1, MergeType
  <2>4. DeviceInv'
    BY <1>1, <2>1 DEF DeviceInv
  <2>5. \A p \in Limits : device'[p] # device[p] => device'[p] = sent[p]
    BY <2>1 DEF Limits, Props
  <2> QED
    BY <1>1, <2>1, <2>2, <2>3, <2>4, <2>5 DEF World, Word, CountInv, history
<1>3. ASSUME NEW props, Lose(props) PROVE World
  <2>1. UNCHANGED <<c, env, phase, history>> /\ sent' = Settled(props)
    BY <1>3 DEF Lose
  <2>2. sent' \in Messages /\ \A p \in Limits : sent'[p] \in {sent[p], -1}
    BY <1>1, <2>1, NothingType, MergeType DEF Settled, Limits, Props
  <2> QED
    BY <1>1, <2>1, <2>2 DEF World, Word, CountInv, DeviceInv, env, history
<1>4. ASSUME NEW props, Report(props) PROVE World
  <2>1. /\ UNCHANGED <<c, sent, device, power, snap, mqtt, sight, seen, newer, phase, unproven, looked>>
        /\ rb' = [p \in Props |-> IF p \in props THEN device[p] ELSE rb[p]]
        /\ held' = IF "retained" \in world.faults
                   THEN [p \in Props |-> IF p \in props THEN device[p] ELSE held[p]] ELSE held
    BY <1>4 DEF Report
  <2>2. rb' \in Messages /\ held' \in Messages
    BY <1>1, <2>1, MergeType
  <2>3. rb'["smart"] \in {device["smart"], rb["smart"]}
        /\ held'["smart"] \in {device["smart"], held["smart"]}
    BY <2>1 DEF Props
  <2> QED
    BY <1>1, <2>1, <2>2, <2>3 DEF World, Word, CountInv, DeviceInv
<1>5. ASSUME NEW props, Poll(props) PROVE World
  <2>1. /\ UNCHANGED <<c, sent, device, power, rb, held, mqtt, sight, seen, newer, phase, unproven, looked>>
        /\ snap' = [p \in Props |-> IF p \in props THEN device[p] ELSE Nothing[p]]
    BY <1>5 DEF Poll
  <2>2. snap' \in Messages
    BY <1>1, <2>1, NothingType, MergeType
  <2>3. snap'["smart"] \in {device["smart"], "none"}
    BY <2>1, NothingType DEF Props
  <2> QED
    BY <1>1, <2>1, <2>2, <2>3 DEF World, Word, CountInv, DeviceInv
<1>6. CASE Act
  <2>1. UNCHANGED <<c, sent, device, rb, snap, held, mqtt, sight, seen, newer, phase, history>>
        /\ power' = Asked
    BY <1>6 DEF Act
  <2>2. device["in"] \in Power /\ device["out"] \in Power
    <3>1. device["in"] \in {-1} \cup Power /\ device["out"] \in {-1} \cup Power
      BY <1>1 DEF Messages
    <3>2. device["in"] # -1 /\ device["out"] # -1
      BY <1>1, NothingType DEF DeviceInv, Props, Limits
    <3> QED
      BY <3>1, <3>2
  <2>3. Asked \in Signals
    BY <2>2 DEF Asked, Signals
  <2> QED
    BY <1>1, <2>1, <2>3 DEF World, Word, CountInv, DeviceInv, history
<1>7. CASE Sample
  <2>1. /\ sight' = "clear" /\ seen' = power
        /\ newer' = (c.count > 0) /\ looked' = c.guard
        /\ UNCHANGED <<c, sent, device, power, rb, snap, held, mqtt, phase, unproven>>
    BY <1>7 DEF Sample
  <2>2. CountInv'
    BY <1>1, <2>1 DEF CountInv
  <2> QED
    BY <1>1, <2>1, <2>2 DEF World, Word, DeviceInv
<1>8. CASE Connect
  <2>1. /\ mqtt' = "up" /\ rb' = Nothing
        /\ UNCHANGED <<c, sent, device, power, snap, held, sight, seen, newer, phase, history>>
    BY <1>8 DEF Connect, Link, Invalidated, history
  <2> QED
    BY <1>1, <2>1, NothingType DEF World, Word, CountInv, DeviceInv, history
<1>9. CASE GoLive
  <2>1. /\ mqtt = "up" /\ mqtt' = "ok"
        /\ UNCHANGED <<c, sent, device, power, rb, snap, held, sight, seen, newer, phase, history>>
    BY <1>9 DEF GoLive, Link, history
  <2> QED
    BY <1>1, <2>1 DEF World, Word, CountInv, DeviceInv, history
<1> QED
  BY <1>2, <1>3, <1>4, <1>5, <1>6, <1>7, <1>8, <1>9 DEF Environment

\* A snapshot reaches the readback.
LEMMA ApplyIsWorld ==
  ASSUME CommandInv, Apply
  PROVE  World
<1>1. /\ c \in Controllers /\ sent \in Messages /\ device \in Messages /\ rb \in Messages
      /\ snap \in Messages /\ held \in Messages /\ power \in Signals /\ seen \in Signals
      /\ mqtt \in {"down", "up", "ok"} /\ sight \in {"stale", "clear", "conflict"}
      /\ unproven \in Active \cup {"none"}
      /\ newer \in BOOLEAN /\ looked \in BOOLEAN
      /\ Coherent(c) /\ CountInv /\ DeviceInv
  BY DEF CommandInv, TypeOK
<1>2. /\ phase' = "control" /\ snap' = Nothing
      /\ rb' = [p \in Props |-> IF p \in Present(snap) THEN snap[p] ELSE rb[p]]
      /\ UNCHANGED <<c, sent, device, power, held, mqtt, sight, seen, newer, history>>
  BY DEF Apply
<1>3. rb' \in Messages
  BY <1>1, <1>2, MergeType
<1>4. rb'["smart"] \in {snap["smart"], rb["smart"]}
  BY <1>2 DEF Props
<1> QED
  BY <1>1, <1>2, <1>3, <1>4, NothingType DEF World, Word, CountInv, DeviceInv, history

LEMMA FaultIsWorld ==
  ASSUME CommandInv, Fault
  PROVE  World
<1>1. /\ c \in Controllers /\ sent \in Messages /\ device \in Messages /\ rb \in Messages
      /\ snap \in Messages /\ held \in Messages /\ power \in Signals /\ seen \in Signals
      /\ mqtt \in {"down", "up", "ok"} /\ sight \in {"stale", "clear", "conflict"}
      /\ phase \in {"apply", "control", "monitor"} /\ unproven \in Active \cup {"none"}
      /\ newer \in BOOLEAN /\ looked \in BOOLEAN
      /\ Coherent(c) /\ CountInv /\ DeviceInv
  BY DEF CommandInv, TypeOK
<1>2. ASSUME NEW props, Expire(props) PROVE World
  <2>1. /\ rb' = [p \in Props |-> IF p \in props THEN Nothing[p] ELSE rb[p]]
        /\ UNCHANGED <<c, sent, device, power, snap, held, mqtt, sight, seen, newer, phase, history>>
    BY <1>2 DEF Expire
  <2>2. rb' \in Messages
    BY <1>1, <2>1, NothingType, MergeType
  <2>3. rb'["smart"] \in {"none", rb["smart"]}
    BY <2>1, NothingType DEF Props
  <2> QED
    BY <1>1, <2>1, <2>2, <2>3 DEF World, Word, CountInv, DeviceInv, history
<1>3. ASSUME NEW state \in {"stale", "conflict"}, LoseSight(state) PROVE World
  <2>1. /\ sight' = state /\ seen' = 0
        /\ UNCHANGED <<c, sent, device, power, rb, snap, held, mqtt, newer, phase, history>>
    BY <1>3 DEF LoseSight
  <2> QED
    BY <1>1, <1>3, <2>1, SignalType DEF World, Word, CountInv, DeviceInv, history
<1>4. CASE Redeliver
  <2> DEFINE props == Present(held)
  <2>1. /\ rb' = [p \in Props |-> IF p \in props THEN held[p] ELSE rb[p]]
        /\ UNCHANGED <<c, sent, device, power, snap, held, mqtt, sight, seen, newer, phase, history>>
    BY <1>4 DEF Redeliver
  <2> HIDE DEF props
  <2>2. rb' \in Messages
    BY <1>1, <2>1, MergeType
  <2>3. rb'["smart"] \in {held["smart"], rb["smart"]}
    BY <2>1 DEF Props
  <2> QED
    BY <1>1, <2>1, <2>2, <2>3 DEF World, Word, CountInv, DeviceInv, history
<1>5. CASE Disconnect
  <2>1. /\ mqtt' = "down" /\ rb' = Nothing
        /\ UNCHANGED <<c, sent, device, power, snap, held, sight, seen, newer, phase, unproven, looked>>
    BY <1>5 DEF Disconnect, Link, Invalidated
  <2> QED
    BY <1>1, <2>1, NothingType DEF World, Word, CountInv, DeviceInv
<1>6. CASE Degrade
  <2>1. /\ mqtt = "ok" /\ mqtt' = "up"
        /\ UNCHANGED <<c, sent, device, power, rb, snap, held, sight, seen, newer, phase, history>>
    BY <1>6 DEF Degrade, Link, history
  <2> QED
    BY <1>1, <2>1 DEF World, Word, CountInv, DeviceInv, history
<1>7. CASE Reboot
  <2>1. /\ device' = [device EXCEPT !["smart"] = "OFF"]
        /\ UNCHANGED <<c, sent, power, rb, snap, held, mqtt, sight, seen, newer, phase, history>>
    BY <1>7 DEF Reboot
  <2>2. device' \in Messages
    BY <1>1, <2>1 DEF Messages
  <2>3. \A p \in Props : device'[p] = IF p = "smart" THEN "OFF" ELSE device[p]
    BY <1>1, <2>1 DEF Messages, Props
  <2>4. DeviceInv'
    BY <1>1, <2>3, NothingType DEF DeviceInv
  <2> QED
    BY <1>1, <2>1, <2>2, <2>3, <2>4, NothingType DEF World, Word, CountInv, history, Limits, Props
<1>8. CASE Restart
  <2>1. /\ c' = FreshController /\ phase' \in {"apply", "control"}
        /\ rb' = Nothing /\ snap' = Nothing /\ mqtt' = "down"
        /\ sight' = "stale" /\ seen' = 0 /\ newer' = FALSE /\ unproven' = "none"
        /\ looked' = FALSE
        /\ UNCHANGED <<sent, device, power, held>>
    BY <1>8 DEF Restart, CycleStart
  <2>2. CountInv'
    BY <2>1, FreshType DEF CountInv
  <2> QED
    BY <1>1, <2>1, <2>2, NothingType, FreshType, SignalType DEF World, Word, DeviceInv
<1> QED
  BY <1>2, <1>3, <1>4, <1>5, <1>6, <1>7, <1>8 DEF Fault

-----------------------------------------------------------------------------
(* The theorems *)

Controlled ==
  /\ Step /\ UNCHANGED <<device, power, rb, snap, held, mqtt, sight, seen>>
  /\ phase' \in {"apply", "control", "monitor"} /\ world' = world

\* Every step is one of the controller, one of the world around it, or none.
LEMMA StepForms ==
  ASSUME CommandInv, [Next]_vars
  PROVE  \/ Suspicion /\ (Controlled \/ (World /\ world' \in Surroundings))
         \/ UNCHANGED vars
<1>1. phase \in {"apply", "control", "monitor"} /\ world \in Surroundings
  BY DEF CommandInv, TypeOK
<1>2. CASE Usually(Apply)
  BY <1>1, <1>2, ApplyIsWorld DEF Usually
<1>3. CASE Usually(Control)
  BY <1>3, ControlIsStep DEF Usually, Controlled
<1>4. CASE Usually(Monitor)
  BY <1>4, MonitorIsStep DEF Usually, Controlled
<1>5. CASE Usually(Time)
  BY <1>1, <1>5, TimeIsStep DEF Usually, Controlled, env
<1>6. CASE Usually(Environment)
  BY <1>1, <1>6, EnvironmentIsWorld DEF Usually
<1>7. CASE Fault /\ world.most > 0 /\ world' = [world EXCEPT !.most = @ - 1] /\ Suspicion
  BY <1>1, <1>7, FaultIsWorld DEF Surroundings
<1> QED
  BY <1>2, <1>3, <1>4, <1>5, <1>6, <1>7 DEF Next

LEMMA InitialCommand == Init => CommandInv /\ EffectInv /\ FlashInv
<1> SUFFICES ASSUME Init PROVE CommandInv /\ EffectInv /\ FlashInv
  OBVIOUS
<1>1. /\ c = FreshController /\ sent = Nothing /\ power = 0 /\ rb = Nothing /\ snap = Nothing
      /\ held = Nothing /\ mqtt = "down" /\ sight = "stale" /\ seen = 0 /\ ~newer /\ newer \in BOOLEAN
      /\ phase \in {"apply", "control"} /\ unproven = "none"
      /\ looked = FALSE /\ suspect = FALSE
  BY DEF Init, CycleStart
<1>2. device \in [smart : {"ON", "OFF"}, mode : {"OutputMode"}, in : {0}, out : {0}]
  BY DEF Init
<1>3. device \in Messages /\ DeviceInv
  BY <1>2 DEF Messages, DeviceInv, Props, Nothing, Modes, Power
<1>4. world \in Surroundings
  BY CommandAssumption DEF Init, CommandAssumption
<1>5. TypeOK
  BY <1>1, <1>3, <1>4, NothingType, FreshType, SignalType DEF TypeOK
<1>6. CommandInv
  BY <1>1, <1>3, <1>5, FreshType DEF CommandInv, CountInv
<1>7. ~Believed
  BY <1>1, NothingType, CommandAssumption DEF Believed, Elsewhere, CommandAssumption
<1>8. EffectInv /\ FlashInv
  BY <1>1, <1>7, FreshType, NothingType DEF EffectInv, Resolved, FlashInv
<1> QED
  BY <1>6, <1>8

LEMMA CommandInvStep == CommandInv /\ [Next]_vars => CommandInv'
<1> SUFFICES ASSUME CommandInv, [Next]_vars PROVE CommandInv'
  OBVIOUS
<1>1. TypeOK /\ CountInv /\ DeviceInv /\ Coherent(c)
  BY DEF CommandInv
<1>2. CASE Controlled /\ Suspicion
  <2>1. TypeOK'
    BY <1>1, <1>2 DEF Controlled, Step, TypeOK, Suspicion
  <2>2. DeviceInv'
    BY <1>1, <1>2 DEF Controlled, DeviceInv
  <2> QED
    BY <1>2, <2>1, <2>2 DEF Controlled, Step, CommandInv
<1>3. CASE World /\ world' \in Surroundings /\ Suspicion
  <2>1. TypeOK'
    BY <1>1, <1>3 DEF World, TypeOK, Suspicion
  <2> QED
    BY <1>3, <2>1 DEF World, CommandInv
<1>4. CASE UNCHANGED vars
  BY <1>1, <1>4 DEF CommandInv, TypeOK, CountInv, DeviceInv, vars, env, history
<1> QED
  BY <1>2, <1>3, <1>4, StepForms

LEMMA CommandInvariant == Spec => []CommandInv
<1>1. Init => CommandInv
  BY InitialCommand
<1> QED
  BY <1>1, CommandInvStep, PTL DEF Spec

LEMMA EffectInvariant == Spec => []EffectInv
<1>1. Init => EffectInv
  BY InitialCommand
<1>2. CommandInv /\ EffectInv /\ [Next]_vars => EffectInv'
  <2> SUFFICES ASSUME CommandInv, EffectInv, [Next]_vars PROVE EffectInv'
    OBVIOUS
  <2>1. CASE Controlled
    BY <2>1 DEF Controlled, Step, EffectInv
  <2>2. CASE World
    BY <2>2, FreshType DEF World, EffectInv, Resolved
  <2>3. CASE UNCHANGED vars
    BY <2>3 DEF vars, history, EffectInv
  <2> QED
    BY <2>1, <2>2, <2>3, StepForms
<1> QED
  BY <1>1, <1>2, CommandInvariant, PTL DEF Spec

\* Whatever the powers, requests and faults, every field of the controller and
\* every message keeps its type, the guard's count stops at two, and a non-zero
\* target is the one the desired batch asks the device for (the bookkeeping of
\* _publish_signed_target and _record_desired_command_batch).
THEOREM CommandConsistency == Spec => []CommandsAreConsistent
<1>1. CommandInv => CommandsAreConsistent
  BY DEF CommandInv, Coherent, CommandsAreConsistent, TargetIsCommanded
<1> QED
  BY <1>1, CommandInvariant, PTL

\* The late-effect guard lets nothing but zero limits leave the controller
\* while it is active, and is released only after a power observation made
\* under it (_late_effect_guard_blocks, _evaluate_late_effect_guard), for every
\* power, any interleaving of the messages and any number of faults.
THEOREM GuardProtects == Spec => GuardHolds
<1>1. CommandInv /\ [Next]_vars
        => [c.guard /\ c'.guard => \A p \in Limits : sent'[p] \in {sent[p], 0, -1}]_vars
  <2> SUFFICES ASSUME CommandInv, [Next]_vars, c.guard
               PROVE  (\A p \in Limits : sent'[p] \in {sent[p], 0, -1}) \/ UNCHANGED vars
    OBVIOUS
  <2>1. CASE Controlled
    BY <2>1 DEF Controlled, Step
  <2>2. CASE World
    BY <2>2 DEF World
  <2> QED
    BY <2>1, <2>2, StepForms
<1>2. CommandInv /\ [Next]_vars
        => [c.guard /\ ~c'.guard => looked \/ c' = FreshController]_vars
  <2> SUFFICES ASSUME CommandInv, [Next]_vars, c.guard, ~c'.guard
               PROVE  looked \/ c' = FreshController \/ UNCHANGED vars
    OBVIOUS
  <2>1. CASE Controlled
    BY <2>1 DEF Controlled, Step
  <2>2. CASE World
    BY <2>2 DEF World
  <2> QED
    BY <2>1, <2>2, StepForms
<1> QED
  BY <1>1, <1>2, CommandInvariant, PTL DEF Spec, GuardHolds, GuardHoldsBack, GuardLooksAgain

\* The opposite of a command without effect is not given before something
\* physical has resolved it.  The guard alone does not carry this: the mismatch
\* mark, its intent and the expired reaction timer have to stay together until
\* the guard takes over (EffectInv), through resyncs and repeated commands.
THEOREM OppositeIsProven == Spec => []OppositeNeedsProof
<1>1. CommandInv /\ EffectInv => OppositeNeedsProof
  <2> SUFFICES ASSUME CommandInv, EffectInv, unproven # "none"
               PROVE  c.desired.intent # Opposite(unproven)
    BY DEF OppositeNeedsProof
  <2>1. unproven \in Active
    BY DEF CommandInv, TypeOK
  <2>2. c.desired.intent = "NEUTRALIZE" \/ c.desired.intent = unproven
    BY DEF EffectInv, Resolved, Pending, CommandInv, Coherent
  <2> QED
    BY <2>1, <2>2 DEF Opposite, Active
<1> QED
  BY <1>1, CommandInvariant, EffectInvariant, PTL

\* Of a step: nothing comes to speak for smartMode that the device did not say
\* or that did not speak for it before, and no report outlives a connection.
LEMMA BeliefStep ==
  ASSUME CommandInv, Controlled \/ World
  PROVE  /\ Believed' => Believed \/ device["smart"] = "ON"
         /\ mqtt # mqtt' /\ "down" \in {mqtt, mqtt'} => (Believed' <=> Elsewhere')
<1>1. 0 \notin Watts /\ -1 \notin Watts
  BY CommandAssumption DEF CommandAssumption
<1>2. CASE Controlled
  <2>1. UNCHANGED <<rb, snap, held, mqtt>>
    BY <1>2 DEF Controlled
  <2>2. FlashActive \/ \A p \in Limits : sent'[p] \in {sent[p], 0}
    BY <1>2 DEF Controlled, Step
  <2> QED
    BY <1>1, <2>1, <2>2 DEF Believed, Elsewhere, FlashActive
<1>3. CASE World
  <2>1. \A p \in Limits : sent'[p] \in Watts => sent[p] \in Watts
    BY <1>1, <1>3 DEF World
  <2>2. {rb'["smart"], snap'["smart"], held'["smart"]} \subseteq Word
    BY <1>3 DEF World
  <2>3. Believed' => Believed \/ device["smart"] = "ON"
    BY <2>1, <2>2 DEF Believed, Elsewhere, Word
  <2>4. mqtt # mqtt' /\ "down" \in {mqtt, mqtt'} => rb'["smart"] = "none"
    BY <1>3 DEF World
  <2> QED
    BY <2>3, <2>4 DEF Believed
<1> QED
  BY <1>2, <1>3

LEMMA FlashInvariant == Spec => []FlashInv
<1>1. CommandInv /\ FlashInv /\ [Next]_vars => FlashInv'
  <2> SUFFICES ASSUME CommandInv, FlashInv, [Next]_vars, Believed', ~suspect'
               PROVE  device'["smart"] = "ON"
    BY DEF FlashInv
  <2>1. CASE UNCHANGED vars
    <3>1. UNCHANGED <<sent, device, rb, snap, held, suspect>>
      BY <2>1 DEF vars, env
    <3> QED
      BY <3>1 DEF FlashInv, Believed, Elsewhere
  <2>2. CASE Suspicion /\ (Controlled \/ World)
    <3>1. ~suspect /\ ~(device["smart"] = "ON" /\ device'["smart"] = "OFF")
      BY <2>2, BeliefStep DEF Suspicion
    <3>2. device["smart"] = "ON"
      BY <2>2, <3>1, BeliefStep DEF FlashInv
    <3>3. device'["smart"] \in {"none", "ON", "OFF"} /\ device'["smart"] # "none"
      <4>1. CommandInv'
        BY CommandInvStep
      <4> QED
        BY <4>1, NothingType DEF CommandInv, TypeOK, DeviceInv, Messages, Props
    <3> QED
      BY <3>1, <3>2, <3>3
  <2> QED
    BY <2>1, <2>2, StepForms
<1> QED
  BY <1>1, InitialCommand, CommandInvariant, PTL DEF Spec

\* Flash protection (the smartMode gate of _publish_command_batch, over the
\* readback of mqtt_bridge.py and of the local API): the device takes over an
\* active limit only while its smartMode is on, unless it has lost smartMode
\* while a word or a limit from before was still around.  For every power,
\* every set of properties read together, with and without the local API, and
\* any number of outages, restarts, expired and redelivered reports.
THEOREM FlashIsProtected == Spec => FlashProtected
<1>1. CommandInv /\ FlashInv /\ [Next]_vars
        => [(\E p \in Limits : device'[p] # device[p] /\ device'[p] \in Watts)
              => device["smart"] = "ON" \/ suspect]_vars
  <2> SUFFICES ASSUME CommandInv, FlashInv, [Next]_vars, ~suspect,
                      NEW p \in Limits, device'[p] # device[p], device'[p] \in Watts
               PROVE  device["smart"] = "ON" \/ UNCHANGED vars
    OBVIOUS
  <2>1. CASE Controlled
    BY <2>1 DEF Controlled
  <2>2. CASE World
    <3>1. sent[p] \in Watts
      BY <2>2 DEF World
    <3> QED
      BY <3>1 DEF FlashInv, Believed, Elsewhere
  <2> QED
    BY <2>1, <2>2, StepForms
<1> QED
  BY <1>1, FlashInvariant, CommandInvariant, PTL DEF Spec, FlashProtected

=============================================================================
