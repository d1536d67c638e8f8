------------------------------- MODULE Cache --------------------------------
(* zi/cache: the cache of container.hpp, whose owner may refuse to give an  *)
(* entry up, and that of detail/storage_base.hpp, where it may not.  The    *)
(* entries are indexed by token, by group and by the time of their last use. *)
(*                                                                           *)
(* A callback runs while the mutex is held, which is recursive: until it     *)
(* returns only the calls that it makes itself come in.  The sizes of        *)
(* entries are left out: nothing is ever asked of them.                      *)
EXTENDS Integers, Sequences, TLC

Seqs == INSTANCE SequencesExt

CONSTANTS Groups,       \* what the entries belong to
          MaxTokens,    \* how many entries are made
          MaxClock,     \* the last microsecond
          MaxCalls      \* how deep callbacks call back

VARIABLES
    owners,     \* "ask" (container.hpp) or "tell" (storage_base.hpp)
    index_,     \* the entries, in the order of the index by timestamp
    counter_,
    clock,
    calls,      \* the tokens whose callbacks run, the innermost last
    touched,    \* when each token was last used
    gone        \* how each entry that is gone went

cacheVars == <<owners, index_, counter_, clock, calls, touched, gone>>

Tokens == {index_[i].token : i \in DOMAIN index_}

\* An ordered_non_unique index: a new entry goes after its equals, and one whose
\* key is changed keeps its place as long as that is right.
Placed(s, entry) ==
    LET before == SelectSeq(s, LAMBDA x : x.timestamp <= entry.timestamp)
        after  == SelectSeq(s, LAMBDA x : x.timestamp > entry.timestamp)
    IN  before \o <<entry>> \o after
Without(s, tokens) == SelectSeq(s, LAMBDA x : x.token \notin tokens)
InPlace(s, token, time) ==
    [i \in DOMAIN s |-> IF s[i].token = token THEN [s[i] EXCEPT !.timestamp = time] ELSE s[i]]
\* Broken: the entry is changed and the index does not hear of it.
RestampedInPlace(s, token, time) == InPlace(s, token, time)

Restamped(s, token, time) ==
    LET i     == CHOOSE j \in DOMAIN s : s[j].token = token
        keeps == /\ i > 1 => s[i - 1].timestamp <= time
                 /\ i < Len(s) => time <= s[i + 1].timestamp
    IN  IF keeps THEN InPlace(s, token, time)
        ELSE Placed(Without(s, {token}), [s[i] EXCEPT !.timestamp = time])

CacheInit ==
    /\ owners \in {"ask", "tell"} /\ index_ = <<>> /\ counter_ = 0 /\ clock = 0
    /\ calls = <<>> /\ touched = <<>> /\ gone = <<>>

\* now::usec(), which may be what it was.
Now == clock' \in {clock, clock + 1} /\ clock' <= MaxClock

Insert(group) ==
    /\ counter_ < MaxTokens /\ Now
    /\ counter_' = counter_ + 1
    /\ index_' = Placed(index_, [token |-> counter_', group |-> group, timestamp |-> clock'])
    /\ touched' = Append(touched, clock')
    /\ UNCHANGED <<owners, calls, gone>>

Touch(token) ==
    /\ token \in Tokens /\ Now
    /\ index_' = Restamped(index_, token, clock')
    /\ touched' = [touched EXCEPT ![token] = clock']
    /\ UNCHANGED <<owners, counter_, calls, gone>>

Leave(tokens, how) ==
    /\ index_' = Without(index_, tokens)
    /\ gone' = [t \in tokens |-> how] @@ gone
    /\ UNCHANGED <<owners, counter_, clock, touched>>

ClearGroup(group) ==
    /\ Leave({index_[i].token : i \in {j \in DOMAIN index_ : index_[j].group = group}}, "cleared")
    /\ UNCHANGED calls

RemoveWithoutFlushCallback(token) ==
    /\ owners = "tell" /\ token \in Tokens
    /\ Leave({token}, "dropped") /\ UNCHANGED calls

\* remove() calls back first.  (A callback that removes its own entry in this way
\* would call itself for ever.)
CallFlush(token) ==
    /\ token \in Tokens /\ Len(calls) < MaxCalls /\ ~ Seqs!Contains(calls, token)
    /\ calls' = Append(calls, token)
    /\ UNCHANGED <<owners, index_, counter_, clock, touched, gone>>

\* What the callback did itself is seen: the entry is looked up again.
FlushReturns(agreed) ==
    /\ calls # <<>> /\ (owners = "tell" => agreed)
    /\ LET token == calls[Len(calls)]
       IN  IF agreed THEN Leave({token} \cap Tokens, "flushed")
           ELSE UNCHANGED <<owners, index_, counter_, clock, touched, gone>>
    /\ calls' = Seqs!Front(calls)

CacheNext ==
    \/ \E g \in Groups : Insert(g) \/ ClearGroup(g)
    \/ \E t \in Tokens : Touch(t) \/ RemoveWithoutFlushCallback(t) \/ CallFlush(t)
    \/ \E b \in BOOLEAN : FlushReturns(b)

-----------------------------------------------------------------------------
\* oldest_token(), of a cache that is not empty, and oldest_age().
OldestToken == index_[1].token
OldestAge   == clock - index_[1].timestamp

\* What is evicted first is what was used longest ago (container.hpp and
\* storage_base.hpp, oldest_token); and an entry stays in the cache until its group
\* is cleared or its owner lets it go, whatever the callbacks do meanwhile, and
\* its token is not given out again.
TheOldestIsEvicted ==
    /\ index_ # <<>> =>
         \A t \in Tokens : /\ touched[OldestToken] <= touched[t]
                           /\ clock - touched[t] <= OldestAge
    /\ \A t \in 1 .. counter_ :
         \/ t \in Tokens /\ t \notin DOMAIN gone
         \/ t \notin Tokens /\ t \in DOMAIN gone
=============================================================================
