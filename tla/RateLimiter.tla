----------------------------- MODULE RateLimiter -----------------------------
(***************************************************************************)
(* RedisRateLimiter.check for one client, by instances of the service that *)
(* share a sorted set. check brings the time of its own clock; the script  *)
(* runs at the server, later, and as a whole.                              *)
(***************************************************************************)
EXTENDS RedisClock, Sequences, FiniteSets, FiniteSetsExt

CONSTANTS
  Instances,  \* one RedisRateLimiter each
  Skew,       \* Skew[i]: how far the clock of i is ahead of the slowest
  MaxSkew,    \* how far apart the clocks are
  MaxDelay,   \* ticks between the Date.now() of a check and its script
  Limit,      \* limit of the constructor
  Window,     \* WINDOW_MS in ticks
  Second,     \* ticks of a second
  MaxChecks,  \* bound: checks
  MaxLost     \* bound: answers that are lost

ASSUME LimiterAssumption ==
  /\ IsFiniteSet(Instances) /\ Instances # {} /\ MaxSkew \in Nat
  /\ Skew \in [Instances -> 0..MaxSkew]
  /\ MaxDelay \in Nat /\ MaxChecks \in Nat /\ MaxLost \in Nat
  /\ {Limit, Window, Second} \subseteq Nat \ {0}

VARIABLES
  members,   \* the sorted set: records [check, score]
  deadline,  \* of its key
  begun,     \* how many checks have begun
  sent,      \* checks whose script has not been answered
  log,       \* history: the executions of the script
  since      \* history: how many of them were before a reset

limiterVars == <<members, deadline, begun, sent, log, since>>

LimiterInit ==
  /\ members = {}
  /\ deadline = NoKey
  /\ begun = 0
  /\ sent = {}
  /\ log = <<>>
  /\ since = 0

-----------------------------------------------------------------------------
SendCheck(i) ==
  /\ begun < MaxChecks
  /\ begun' = begun + 1
  /\ sent' = sent \cup {[check |-> begun', now |-> time + Skew[i], at |-> time]}
  /\ UNCHANGED <<members, deadline, log, since>>

Members == IF Alive(deadline) THEN members ELSE {}

\* Mutation of InWindow: no ZREMRANGEBYSCORE.
AllMembers(c) == Members

(***************************************************************************)
(* ZREMRANGEBYSCORE 0 (now - window), and what it leaves.                  *)
(***************************************************************************)
InWindow(c) == {m \in Members : m.score > c.now - Window}

\* Mutation of Full: count > limit.
FullWithOneMore(c) == Cardinality(InWindow(c)) > Limit

Full(c) == Cardinality(InWindow(c)) >= Limit

Oldest(c) == Min({m.score : m \in InWindow(c)})

\* Mutation of Seconds: math.floor.
WholeSeconds(ticks) == ticks \div Second

Seconds(ticks) == (ticks + Second - 1) \div Second

RetryAfter(c) == Max({1, Seconds(Window - (c.now - Oldest(c)))})

(***************************************************************************)
(* The answer of the script, or its loss: then ioredis connects again and  *)
(* sends the script once more, with the same time and member.              *)
(***************************************************************************)
Answer(c, allowed, retryAfter) ==
  \E answered \in BOOLEAN :
    /\ ~answered => Cardinality({n \in DOMAIN log : ~log[n].answered}) < MaxLost
    /\ sent' = IF answered THEN sent \ {c} ELSE sent
    /\ log' = Append(log, [check |-> c.check, now |-> c.now, time |-> time, allowed |-> allowed,
                           retryAfter |-> retryAfter, answered |-> answered])
    /\ UNCHANGED <<begun, since>>

Refuse(c) ==
  /\ Full(c)
  /\ members' = InWindow(c)
  /\ UNCHANGED deadline
  /\ Answer(c, FALSE, RetryAfter(c))

(***************************************************************************)
(* ZADD and PEXPIRE.                                                       *)
(***************************************************************************)
Allow(c) ==
  /\ ~Full(c)
  /\ members' = InWindow(c) \cup {[check |-> c.check, score |-> c.now]}
  /\ deadline' = time + Window
  /\ Answer(c, TRUE, 0)

(***************************************************************************)
(* check throws without an execution of its script.                        *)
(***************************************************************************)
LoseCheck(c) ==
  /\ sent' = sent \ {c}
  /\ UNCHANGED <<members, deadline, begun, log, since>>

Reset ==
  /\ since < Len(log)
  /\ members' = {}
  /\ deadline' = NoKey
  /\ since' = Len(log)
  /\ UNCHANGED <<begun, sent, log>>

LimiterNext ==
  \/ \E i \in Instances : SendCheck(i)
  \/ \E c \in sent : Refuse(c) \/ Allow(c) \/ LoseCheck(c)
  \/ Reset

InTime == \A c \in sent : time < c.at + MaxDelay

LimiterSpec ==
  /\ time = 1 /\ LimiterInit
  /\ [][\/ LimiterNext /\ UNCHANGED time
        \/ Tick /\ InTime /\ UNCHANGED limiterVars]_<<time, limiterVars>>

-----------------------------------------------------------------------------
Allowed(n) == n > since /\ log[n].allowed

(***************************************************************************)
(* How far the clock of a check can be from that of another, as the server *)
(* sees them.                                                              *)
(***************************************************************************)
Spread == MaxSkew + MaxDelay

(***************************************************************************)
(* README.md:287: a sliding window has no burst at a boundary. Whatever    *)
(* clocks and delays, more than Limit checks are never allowed in less     *)
(* than a window, but for the spread of the clocks.                        *)
(***************************************************************************)
WindowRespected ==
  LET granted == {n \in DOMAIN log : Allowed(n) /\ log[n].answered} IN
  \A m, n \in granted :
    m < n /\ Cardinality(granted \cap (m..n)) > Limit
      => log[n].time - log[m].time >= Window - Spread

(***************************************************************************)
(* And a check is refused only if Limit checks were allowed in the window  *)
(* before it, again but for the spread: old members do not stay. Those     *)
(* whose answer was lost count, the refused check itself included.         *)
(***************************************************************************)
RefusedOnlyWhenFull ==
  \A n \in DOMAIN log :
    n > since /\ ~log[n].allowed =>
      Cardinality({log[m].check : m \in {m \in 1..(n - 1) :
        Allowed(m) /\ log[m].time > log[n].time - Window - Spread}}) >= Limit

(***************************************************************************)
(* Who waits Retry-After seconds by the clock of its instance is allowed,  *)
(* unless another check has been meanwhile: the seconds are rounded up.    *)
(***************************************************************************)
RetryAfterSuffices ==
  \A m, n \in DOMAIN log :
    /\ since < m /\ m < n
    /\ ~log[m].allowed
    /\ log[n].now >= log[m].now + Second * log[m].retryAfter
    /\ \A k \in m..(n - 1) : ~log[k].allowed
    => log[n].allowed

=============================================================================
