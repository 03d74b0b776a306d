----------------------------- MODULE Watchlist ------------------------------
(***************************************************************************)
(* The watchlist table and its writers: auto_promote of the triage daemon, *)
(* the operator's add and remove (cli/forge.py) and the hourly sweep.  A   *)
(* row is read and then written in separate statements; only a write is a  *)
(* transaction.                                                            *)
(***************************************************************************)
EXTENDS Naturals

CONSTANTS
    Watchable,      \* tickers
    Ttl,            \* sensing_watchlist_ttl_days, in ticks
    MaxNow          \* bound: ticks

ASSUME WatchlistAssumption == Ttl \in Nat \ {0} /\ MaxNow \in Nat

VARIABLES
    list,       \* ticker -> row, or Absent
    now,        \* the clock
    promo,      \* the promotion in progress
    add,        \* the operator's add in progress
    curated,    \* history: tickers added by the operator and not removed
    torn        \* history: tickers whose last add met another write midway

listVars == <<list, now, promo, add, curated, torn>>

Absent == [there |-> FALSE, until |-> 0, user |-> FALSE]
Never == MaxNow + Ttl + 1        \* ttl_until IS NULL
Rest == [pc |-> "rest"]
Listed(until, user) == [there |-> TRUE, until |-> until, user |-> user]

Expired(t) == list[t].there /\ list[t].until < now

WatchlistInit ==
    /\ list = [t \in Watchable |-> Absent] /\ now = 0
    /\ promo = Rest /\ add = Rest
    /\ curated = {} /\ torn = {}
-----------------------------------------------------------------------------
\* upsert_watchlist, second half: INSERT of a row that was absent when read,
\* else UPDATE with the tags read merged in; the INSERT raises when a row has
\* appeared, the UPDATE finds nothing when it has gone.
Upsert(t, seen, until, user) ==
    list' = IF seen.there = list[t].there
            THEN [list EXCEPT ![t] = Listed(until, user \/ seen.user)]
            ELSE list

\* auto_promote: a mention clears both thresholds; the tags are read ...
Promote(t) ==
    /\ promo = Rest
    /\ promo' = [pc |-> "read", ticker |-> t, user |-> list[t].user]
    /\ UNCHANGED <<list, now, add, curated, torn>>

\* ... then the row, by upsert_watchlist ...
PromoteReads ==
    /\ promo.pc = "read"
    /\ promo' = [pc |-> "write", ticker |-> promo.ticker, user |-> promo.user,
                 seen |-> list[promo.ticker]]
    /\ UNCHANGED <<list, now, add, curated, torn>>

\* Wrong: a mention sets the expiry of any row.
PromoteRenews ==
    /\ promo.pc = "write"
    /\ Upsert(promo.ticker, promo.seen, now + Ttl, promo.user)
    /\ promo' = Rest
    /\ UNCHANGED <<now, add, curated, torn>>

\* ... and it is written: no expiry for a row that was the user's.
PromoteWrites ==
    /\ promo.pc = "write"
    /\ Upsert(promo.ticker, promo.seen, IF promo.user THEN Never ELSE now + Ttl, promo.user)
    /\ promo' = Rest
    /\ torn' = IF add # Rest /\ add.ticker = promo.ticker
               THEN torn \cup {promo.ticker} ELSE torn
    /\ add' = IF add # Rest /\ add.ticker = promo.ticker
              THEN [add EXCEPT !.met = TRUE] ELSE add
    /\ UNCHANGED <<now, curated>>

\* forge watchlist add: the row is read ...
AddReads(t) ==
    /\ add = Rest
    /\ add' = [pc |-> "write", ticker |-> t, seen |-> list[t], met |-> FALSE]
    /\ UNCHANGED <<list, now, promo, curated, torn>>

Promoting(t) == promo # Rest /\ promo.ticker = t

\* ... and written without an expiry.
AddWrites ==
    /\ add # Rest
    /\ LET t == add.ticker
       IN  /\ Upsert(t, add.seen, Never, TRUE)
           /\ curated' = curated \cup {t}
           /\ torn' = IF add.met \/ Promoting(t) THEN torn \cup {t} ELSE torn \ {t}
    /\ add' = Rest
    /\ UNCHANGED <<now, promo>>

\* A DELETE that an add in progress does not see.
Deleted(T) ==
    /\ list' = [t \in Watchable |-> IF t \in T THEN Absent ELSE list[t]]
    /\ add' = IF add # Rest /\ add.ticker \in T THEN [add EXCEPT !.met = TRUE] ELSE add

\* forge watchlist remove.
RemoveTicker(t) ==
    /\ list[t].there
    /\ Deleted({t})
    /\ curated' = curated \ {t} /\ UNCHANGED <<now, promo, torn>>

\* sweep_expired.
Sweepable == {t \in Watchable : Expired(t) /\ ~list[t].user}
Sweep ==
    /\ Sweepable # {}
    /\ Deleted(Sweepable)
    /\ UNCHANGED <<now, promo, curated, torn>>

WatchTick ==
    /\ now < MaxNow /\ now' = now + 1
    /\ UNCHANGED <<list, promo, add, curated, torn>>

WatchlistNext ==
    \/ \E t \in Watchable : Promote(t) \/ AddReads(t) \/ RemoveTicker(t)
    \/ PromoteReads \/ PromoteWrites \/ AddWrites \/ Sweep \/ WatchTick

WatchlistSpec == WatchlistInit /\ [][WatchlistNext]_listVars
-----------------------------------------------------------------------------
\* A ticker the operator added never expires (watchlist_add), unless another
\* write of the same row came between a read and its write: whatever triage
\* promotes later leaves it to the user, and no sweep takes it.
CuratedNeverExpires ==
    \A t \in curated \ torn : list[t] = Listed(Never, TRUE)
=============================================================================
