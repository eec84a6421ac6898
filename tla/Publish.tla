---- MODULE Publish ----
(***************************************************************************)
(* WovenCore::publish_at in one session: the two rate limits a publish is  *)
(* charged to, its validation, the authority's answer, the sequence        *)
(* numbers, the cached state with its bytes and times to live, and the     *)
(* journal outbox.  Which connections receive the messages is the subject  *)
(* of SpaceGraph, how they are queued of OutboundQueue.                    *)
(*                                                                         *)
(* Time is kept as ages: a limiter knows how much of its window has passed *)
(* (all of it, too, when there is none yet), a cache entry how much of its *)
(* time to live is left.                                                   *)
(***************************************************************************)
EXTENDS Naturals, Sequences, FiniteSets, SequencesExt, FiniteSetsExt

CONSTANTS Publishers,      \* the connections that publish
          Entities,        \* what they publish about
          Channels,        \* the registered channels
          Definition,      \* [Channels -> ChannelDefinition]
          Cases            \* what a run looks at: limits and what is published

ChannelDefinition ==
  [persistence : {"ephemeral", "stateful", "durable"},
   ttl : Nat,                         \* 0: lives until it is removed
   limit : Nat,                       \* max_payload_bytes
   relays : BOOLEAN]                  \* RelayOwned, or a policy that emits

Message == [channel : Channels, entity : Entities, seq : Nat, size : Nat]

\* The length of a rate window in ticks (0: less than one), the configured
\* limits, the ceilings the session may be given ({}: none), the messages that
\* are published and the lists a policy may emit; the number of messages that
\* are accepted is bounded.
Case == [window : Nat, budget : Nat, ceilings : SUBSET (SUBSET Nat), entries : Nat, bytes : Nat,
         keys : Nat, journal : Nat, emissions : Nat, offers : SUBSET Message,
         emits : SUBSET Seq(Message), accepts : Nat, owner : [Entities -> Publishers],
         leaves : BOOLEAN, loses : BOOLEAN]

VARIABLES lim,       \* the case at hand
          pub,       \* the core's state that publish_at reads and writes
          accepted,  \* history: the messages accepted, by whom, whether their
                     \* sequence key has lived on since
          popped,    \* history: the number of journal records taken out
          spent,     \* history: what each connection was charged in the
                     \* session in its current window, and its age
          justified  \* history: state was refused only when what had not
                     \* expired left no room
publishVars == <<lim, pub, accepted, popped, spent, justified>>

Limiter == [age : 0..lim.window, n : Nat]
Idle == [age |-> lim.window, n |-> 0]
Less(a, b) == IF a > b THEN a - b ELSE 0          \* saturating_sub
Keep(f, S) == [x \in DOMAIN f \cap S |-> f[x]]
Lives(m) == Definition[m.channel].persistence = "stateful"
IsDurable(m) == Definition[m.channel].persistence = "durable"
StateKey(m) == <<m.entity, m.channel>>
SequenceKey(c, m) == <<c, m.entity, m.channel>>

-----------------------------------------------------------------------------
(* Rate limits *)

\* ConnectionRateLimiter::admit_optional: the first publish of a window opens
\* it; in an open window the ceiling counts, and none admits everything.
Admits(l, ceiling) == l.age = lim.window \/ \A max \in ceiling : l.n < max
Charged(l) == IF l.age = lim.window THEN [l EXCEPT !.age = 0, !.n = 1] ELSE [l EXCEPT !.n = @ + 1]

-----------------------------------------------------------------------------
(* Cached state *)

Expired(p) == {k \in DOMAIN p.cache : p.cache[k].ttl # 0 /\ p.cache[k].left = 0}
Fresh(p) == DOMAIN p.cache \ Expired(p)
ByteLen(cache) == MapThenSumSet(LAMBDA k : cache[k].size, DOMAIN cache)

\* retain or sweep_expired, and recompute_state_bytes
Retained(p, keys) ==
  [p EXCEPT !.cache = Keep(@, keys), !.bytes = ByteLen(Keep(p.cache, keys))]

\* (mutant of Swept) state at its limit is counted with what has expired
NotSwept(p) == p

Swept(p) == IF Expired(p) = {} THEN p ELSE Retained(p, Fresh(p))

\* (mutant of Put) bytes of a value that is replaced are counted on
PutAddingBytes(p, m) ==
  IF ~Lives(m) THEN p
  ELSE [p EXCEPT !.cache = (StateKey(m) :>
                              [seq |-> m.seq, size |-> m.size,
                               ttl |-> Definition[m.channel].ttl,
                               left |-> Definition[m.channel].ttl]) @@ @,
                 !.bytes = @ + m.size]

\* InMemoryCacheService::put with the incremental count of bytes
Put(p, m) ==
  IF ~Lives(m) THEN p
  ELSE [p EXCEPT !.cache = (StateKey(m) :>
                              [seq |-> m.seq, size |-> m.size,
                               ttl |-> Definition[m.channel].ttl,
                               left |-> Definition[m.channel].ttl]) @@ @,
                 !.bytes = (IF StateKey(m) \in DOMAIN p.cache
                            THEN Less(@, p.cache[StateKey(m)].size) ELSE @) + m.size]

\* validate_state_capacity counts what the messages would leave: one entry per
\* key, and of several messages for one key the bytes of the last.
Projected(p, ms) ==
  FoldLeft(LAMBDA acc, m :
             IF ~Lives(m) THEN acc
             ELSE [sizes |-> (StateKey(m) :> m.size) @@ acc.sizes,
                   bytes |-> (IF StateKey(m) \in DOMAIN acc.sizes
                              THEN Less(acc.bytes, acc.sizes[StateKey(m)]) ELSE acc.bytes) + m.size],
           [sizes |-> [k \in DOMAIN p.cache |-> p.cache[k].size], bytes |-> p.bytes], ms)

StateFits(p, ms) ==
  LET after == Projected(p, ms)
  IN Cardinality(DOMAIN after.sizes) <= lim.entries /\ after.bytes <= lim.bytes

-----------------------------------------------------------------------------
(* Validation *)

\* validate_message without the sequence: payload, space and entity.
WellFormed(p, m) == m.size <= Definition[m.channel].limit /\ m.entity \in DOMAIN p.owner

Newer(p, c, m) ==
  SequenceKey(c, m) \in DOMAIN p.seqs => m.seq > p.seqs[SequenceKey(c, m)]

\* Each message against the stored number, against the numbers the messages
\* before it will have stored, and what is emitted against what it answers.
InSequence(p, c, m, ms) ==
  LET before(i) == SubSeq(ms, 1, i - 1) \o (IF Definition[m.channel].relays THEN <<>> ELSE <<m>>)
  IN \A i \in DOMAIN ms :
       /\ Newer(p, c, ms[i])
       /\ \A n \in ToSet(before(i)) : StateKey(n) = StateKey(ms[i]) => n.seq < ms[i].seq

\* The numbers a publish will store: planned_sequences.
Planned(c, m, ms) ==
  LET all == IF Definition[m.channel].relays THEN ms ELSE <<m>> \o ms
  IN FoldLeft(LAMBDA f, n : (SequenceKey(c, n) :> n.seq) @@ f, [x \in {} |-> 0], all)

\* (mutant of KeysFit) each new key is counted alone
KeysFitEach(p, plan) == \A k \in DOMAIN plan : Cardinality(DOMAIN p.seqs \cup {k}) <= lim.keys

KeysFit(p, plan) == Cardinality(DOMAIN p.seqs \cup DOMAIN plan) <= lim.keys

JournalFits(p, ms) == Len(p.journal) + Len(SelectSeq(ms, IsDurable)) <= lim.journal

-----------------------------------------------------------------------------
(* publish_at *)

\* The checks in their order; the first that fails is the answer.  `ms` is what
\* the channel's authority makes of the message: itself (RelayOwned, which asks
\* for the entity's owner) or the messages it emits.
Answer(p, c, m, ms) ==
  LET relays == Definition[m.channel].relays
      swept == Swept(p)
  IN IF ~Admits(p.wire[c], {lim.budget}) THEN "connection_rate"
     ELSE IF c \notin p.members THEN "membership"
     ELSE IF ~Admits(p.purse[c], p.ceiling) THEN "session_rate"
     ELSE IF ~WellFormed(p, m) \/ ~Newer(p, c, m) THEN "invalid"
     ELSE IF relays /\ p.owner[m.entity] # c THEN "not_owned"
     ELSE IF ~relays /\ Len(ms) > lim.emissions THEN "emissions"
     ELSE IF ~(\A i \in DOMAIN ms : WellFormed(p, ms[i])) \/ ~InSequence(p, c, m, ms) THEN "invalid"
     ELSE IF ~KeysFit(p, Planned(c, m, ms)) THEN "sequence_keys"
     ELSE IF ~StateFits(swept, ms) THEN "state"
     ELSE IF ~JournalFits(swept, ms) THEN "journal"
     ELSE "ok"

\* The part of a list of records that the outbox takes before it is full.
Taken(p, ms) ==
  LET records == SelectSeq(ms, IsDurable)
      room == lim.journal - Len(p.journal)
  IN SubSeq(records, 1, IF room < Len(records) THEN room ELSE Len(records))

\* What a publish leaves behind: the charges of the checks it got past, the
\* sweep that comes with the state check, and, when it is accepted, its records,
\* numbers and values.  A record that found no room would end it there.
After(p, c, m, ms, answer) ==
  LET onWire == IF answer = "connection_rate" THEN p ELSE [p EXCEPT !.wire[c] = Charged(@)]
      inSession == IF answer \in {"connection_rate", "membership", "session_rate"} THEN onWire
                   ELSE [onWire EXCEPT !.purse[c] = Charged(@)]
      swept == IF answer \in {"state", "journal", "ok"} THEN Swept(inSession) ELSE inSession
      recorded == [swept EXCEPT !.journal = @ \o Taken(swept, ms)]
  IN IF answer # "ok" THEN swept
     ELSE IF Len(Taken(swept, ms)) < Len(SelectSeq(ms, IsDurable)) THEN recorded
     ELSE FoldLeft(Put, [recorded EXCEPT !.seqs = Planned(c, m, ms) @@ @], ms)

Outcomes(m) == IF Definition[m.channel].relays THEN {<<m>>} ELSE lim.emits

PublishAt(c, m) == \E ms \in Outcomes(m) : \E answer \in {Answer(pub, c, m, ms)} :
  /\ Len(accepted) + Len(ms) <= lim.accepts
  /\ pub' = After(pub, c, m, ms, answer)
  /\ accepted' = IF pub'.seqs = pub.seqs THEN accepted
                 ELSE accepted \o [i \in DOMAIN ms |-> [msg |-> ms[i], by |-> c, kept |-> TRUE, counted |-> TRUE]]
  /\ spent' = IF answer \in {"connection_rate", "membership", "session_rate"} THEN spent
              ELSE [spent EXCEPT ![c] = Charged(@)]
  /\ justified' = (justified /\ (answer = "state" => ~StateFits(Retained(pub, Fresh(pub)), ms)))
  /\ UNCHANGED <<lim, popped>>

-----------------------------------------------------------------------------
(* What goes on around it *)

Mark(gone, out) ==
  accepted' = [i \in DOMAIN accepted |->
                 [accepted[i] EXCEPT !.kept = @ /\ accepted[i].msg.entity \notin gone,
                                     !.counted = @ /\ accepted[i].msg.entity \notin gone
                                                   /\ accepted[i].by \notin out]]

\* remove_entities_and_anchored_spaces as far as its entities' data goes
Without(p, gone) ==
  [Retained(p, {k \in DOMAIN p.cache : k[1] \notin gone})
     EXCEPT !.owner = Keep(@, Entities \ gone),
            !.seqs = Keep(@, {k \in DOMAIN p.seqs : k[2] \notin gone})]

RemoveEntity(e) ==
  /\ lim.loses
  /\ e \in DOMAIN pub.owner
  /\ pub' = Without(pub, {e})
  /\ Mark({e}, {})
  /\ UNCHANGED <<lim, popped, spent, justified>>

\* (mutant of Forget) leaving gives the budget back
ForgetAlways(p, c) == Keep(p.purse, Publishers \ {c})

\* detach_connection_from_session keeps the limiter once a ceiling was known.
Forget(p, c) == IF p.purse[c].retain THEN p.purse ELSE Keep(p.purse, Publishers \ {c})

LeaveSession(c) ==
  /\ lim.leaves
  /\ c \in pub.members
  /\ \E gone \in {{e \in DOMAIN pub.owner : pub.owner[e] = c}} :
       /\ pub' = [Without(pub, gone) EXCEPT
                    !.members = @ \ {c}, !.purse = Forget(pub, c),
                    !.seqs = Keep(@, {k \in DOMAIN @ : k[1] # c /\ k[2] \notin gone})]
       /\ Mark(gone, {c})
  /\ spent' = IF pub.purse[c].retain THEN spent ELSE [spent EXCEPT ![c] = Idle]
  /\ UNCHANGED <<lim, popped, justified>>

\* join_session_unchecked_admission_at: limiters of sessions that were left are
\* pruned when their window is over.
JoinSession(c) ==
  /\ c \notin pub.members
  /\ LET kept == IF c \in DOMAIN pub.purse /\ pub.purse[c].age # lim.window THEN {c} ELSE {}
     IN pub' = [pub EXCEPT !.members = @ \cup {c},
                           !.purse = IF kept # {} THEN @
                                     ELSE (c :> [age |-> lim.window, n |-> 0, retain |-> pub.ceiling # {}]) @@ @]
  /\ UNCHANGED <<lim, accepted, popped, spent, justified>>

\* set_session_publish_rate_limit
SetCeiling(ceiling) ==
  /\ pub' = [pub EXCEPT !.ceiling = ceiling,
                        !.purse = [c \in DOMAIN @ |-> [@[c] EXCEPT !.retain = @ \/ ceiling # {}]]]
  /\ UNCHANGED <<lim, accepted, popped, spent, justified>>

SweepExpiredState ==
  /\ pub' = Swept(pub)
  /\ UNCHANGED <<lim, accepted, popped, spent, justified>>

PopJournalRecord ==
  /\ pub.journal # <<>>
  /\ pub' = [pub EXCEPT !.journal = Tail(@)]
  /\ popped' = popped + 1
  /\ UNCHANGED <<lim, accepted, spent, justified>>

Older(l) == IF l.age + 1 >= lim.window THEN [l EXCEPT !.age = lim.window, !.n = 0]
            ELSE [l EXCEPT !.age = @ + 1]
PassTime ==
  /\ pub' = [pub EXCEPT !.wire = [c \in Publishers |-> Older(@[c])],
                        !.purse = [c \in DOMAIN @ |-> Older(@[c])],
                        !.cache = [k \in DOMAIN @ |-> [@[k] EXCEPT !.left = IF @ > 0 THEN @ - 1 ELSE 0]]]
  /\ spent' = [c \in Publishers |-> Older(spent[c])]
  /\ UNCHANGED <<lim, accepted, popped, justified>>

-----------------------------------------------------------------------------
PublishInit ==
  /\ lim \in Cases
  /\ \E ceiling \in lim.ceilings :
       pub = [members |-> Publishers, owner |-> lim.owner, ceiling |-> ceiling,
              wire |-> [c \in Publishers |-> Idle],
              purse |-> [c \in Publishers |-> [age |-> lim.window, n |-> 0, retain |-> ceiling # {}]],
              seqs |-> [k \in {} |-> 0], cache |-> [k \in {} |-> 0], bytes |-> 0, journal |-> <<>>]
  /\ accepted = <<>>
  /\ popped = 0
  /\ spent = [c \in Publishers |-> Idle]
  /\ justified = TRUE

PublishNext ==
  \/ \E c \in Publishers, m \in lim.offers : PublishAt(c, m)
  \/ \E e \in Entities : RemoveEntity(e)
  \/ \E c \in Publishers : JoinSession(c) \/ LeaveSession(c)
  \/ \E ceiling \in lim.ceilings : SetCeiling(ceiling)
  \/ SweepExpiredState
  \/ PopJournalRecord
  \/ PassTime

PublishFairness == WF_publishVars(SweepExpiredState) /\ WF_publishVars(PassTime)

-----------------------------------------------------------------------------
(* Properties *)

\* Every part of the state has its type; the two sides of a membership agree:
\* a member has a limiter in the session.
PublishTypeOK ==
  /\ lim \in Case
  /\ pub.members \subseteq DOMAIN pub.purse
  /\ pub.wire \in [Publishers -> Limiter]
  /\ \A c \in DOMAIN pub.purse : pub.purse[c].age \in 0..lim.window /\ pub.purse[c].retain \in BOOLEAN
  /\ \A k \in DOMAIN pub.cache : k \in Entities \X Channels
  /\ \A k \in DOMAIN pub.seqs : k \in Publishers \X Entities \X Channels
  /\ \A i \in DOMAIN pub.journal : pub.journal[i] \in Message
  /\ spent \in [Publishers -> Limiter]

\* The number of bytes kept beside the cache is that of its values, through
\* replacements, several values for one key in one publish, sweeps, removals
\* and refusals: state_bytes is added to and subtracted from in publish_at and
\* recomputed elsewhere.
BytesExact == pub.bytes = ByteLen(pub.cache)

\* What a session keeps stays within the configured limits, also when one
\* publish emits several messages: validate_sequence_capacity,
\* validate_state_capacity and the journal's remaining capacity.
WithinLimits ==
  /\ Cardinality(DOMAIN pub.cache) <= lim.entries
  /\ pub.bytes <= lim.bytes
  /\ Cardinality(DOMAIN pub.seqs) <= lim.keys
  /\ Len(pub.journal) <= lim.journal

Durable == SelectSeq([i \in DOMAIN accepted |-> accepted[i].msg], IsDurable)

\* The journal has one record for every durable message that was accepted, in
\* their order, and none of a publish that was refused: all of a publish's
\* records are taken or none.
JournalIsAccepted == SubSeq(Durable, popped + 1, Len(Durable)) = pub.journal

Latest(k) == Max({0} \cup {i \in DOMAIN accepted :
                    accepted[i].kept /\ Lives(accepted[i].msg) /\ StateKey(accepted[i].msg) = k})

\* The cached value is the one accepted last for its key, whoever published
\* it, and a value without a time to live is there for as long as its entity.
NewestIsCached ==
  \A e \in Entities, ch \in Channels : \E i \in {Latest(<<e, ch>>)} :
    /\ <<e, ch>> \in DOMAIN pub.cache =>
         /\ i # 0
         /\ pub.cache[<<e, ch>>].seq = accepted[i].msg.seq
         /\ pub.cache[<<e, ch>>].size = accepted[i].msg.size
    /\ i # 0 /\ Definition[ch].ttl = 0 => <<e, ch>> \in DOMAIN pub.cache

\* The numbers of the messages accepted from one connection for one entity and
\* channel increase, what an authority emits in its name included; receivers
\* drop what is not newer (StaleSequence).
SequencesIncrease ==
  \A i, j \in DOMAIN accepted :
    /\ i < j
    /\ accepted[i].by = accepted[j].by
    /\ StateKey(accepted[i].msg) = StateKey(accepted[j].msg)
    /\ accepted[i].counted
    => accepted[i].msg.seq < accepted[j].msg.seq

\* A publish is refused for want of room in the state only when what has not
\* expired fills it: validate_state_capacity sweeps first, so that values
\* nobody renews do not hold others up "until the next global sweep".
RefusedOnlyWhenFull == justified

\* While the session has a ceiling, no connection publishes past it within one
\* window, whatever it leaves and joins again and however the ceiling was
\* changed before: "The connection owns this budget so LeaveSession cannot
\* replenish it."
BudgetKept ==
  [][\A c \in Publishers, max \in pub.ceiling :
       spent'[c].n > spent[c].n => spent'[c].n <= max]_publishVars

\* Values past their time to live are removed, although nobody publishes any
\* more: sweep_expired_state runs on the worker's timer.
ExpiredIsReclaimed == (Expired(pub) # {}) ~> (Expired(pub) = {})

\* What a session stores is what it accepted, all of each publish or nothing: the
\* journal has the durable messages, the cache the newest values, and the count
\* of bytes is theirs, through replacements, sweeps, removals and refusals.
StoredIsAccepted == PublishTypeOK /\ JournalIsAccepted /\ NewestIsCached /\ BytesExact

\* The limits are exact: no publish takes the session past one, numbers accepted
\* under one key increase, and state is refused only for want of room.
LimitsExact == WithinLimits /\ SequencesIncrease /\ RefusedOnlyWhenFull

====
