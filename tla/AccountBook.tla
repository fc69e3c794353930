------------------------------ MODULE AccountBook ------------------------------
(***************************************************************************)
(* What internal/user promises of its operations: whatever else is running, *)
(* each takes effect at once, on the tables as it finds them then, or not   *)
(* at all.  Between its call and its return an operation is a record in     *)
(* call.  Only the deletion has two moments: it looks for the links of the  *)
(* account, and then takes them and the account away together; a link       *)
(* minted in between survives.                                              *)
(***************************************************************************)
EXTENDS Integers, FiniteSets

CONSTANTS
    Worker, Addr, Token, Handle, None, SignedUp,
    LoginBudget, LoginBudgetWindow, TokenTTL, PurgeRetention

VARIABLES
    clock,
    use, owner, created,    \* links: what became of each, its address, its age
    acct, handle, nextId,   \* accounts by address
    call                    \* the operation each worker is in

tables == <<use, owner, created, acct, handle, nextId>>
bVars  == <<clock, tables, call>>

NewCall(op, a, k, i, h, n, K) ==
    [op |-> op, addr |-> a, tok |-> k, id |-> i, handle |-> h, now |-> n, seen |-> K]

NoCall == NewCall("none", None, None, 0, None, 0, {})

Init ==
    /\ clock = 0
    /\ use = [k \in Token |-> "new"]
    /\ owner = [k \in Token |-> None]
    /\ created = [k \in Token |-> 0]
    /\ acct = [a \in Addr |-> IF a \in SignedUp THEN 1 ELSE 0]
    /\ handle = [a \in Addr |-> None]
    /\ nextId = 2
    /\ call = [w \in Worker |-> NoCall]

OnRecord == {"open", "retired", "spent"}
LinksOf(a) == {k \in Token : use[k] \in OnRecord /\ owner[k] = a}
Recent(a, n) == {k \in LinksOf(a) : created[k] > n - LoginBudgetWindow}
Expired(n) == {k \in Token : use[k] \in OnRecord /\ created[k] + TokenTTL < n - PurgeRetention}
-------------------------------------------------------------------------------
(* Calls and returns.                                                      *)

Begins(w) == call[w].op = "none" /\ call'[w].op # "none"

Begin(w, c) ==
    /\ call' = [call EXCEPT ![w] = c]
    /\ UNCHANGED <<clock, tables>>

Call(w) ==
    \/ \E a \in Addr, k \in Token :
          /\ use[k] = "new" /\ \A v \in Worker : call[v].tok # k
          /\ Begin(w, NewCall("request", a, k, 0, None, clock, {}))
    \/ \E k \in Token :
          /\ use[k] # "new"
          /\ Begin(w, NewCall("complete", owner[k], k, 0, None, clock, {}))
    \/ \E a \in Addr :
          /\ acct[a] # 0
          /\ Begin(w, NewCall("delete", a, None, acct[a], None, clock, {}))
    \/ \E a \in Addr, h \in Handle :
          /\ acct[a] # 0
          /\ Begin(w, NewCall("claim", a, None, acct[a], h, clock, {}))
    \/ Begin(w, NewCall("purge", None, None, 0, None, clock, Expired(clock)))

Returns(w) == call[w].op # "none" /\ call'[w].op = "none"

Return(w) == call' = [call EXCEPT ![w] = NoCall]

\* Refused, failed or rolled back: nothing of it remains.
NoEffect(w) ==
    /\ Return(w)
    /\ UNCHANGED <<clock, tables>>
-------------------------------------------------------------------------------
(* Effects.                                                                *)

\* Within the budget, the new link replaces every other of its address.
RequestLogin(w) ==
    LET c == call[w] IN
    /\ c.op = "request"
    /\ use[c.tok] = "new"
    /\ Cardinality(Recent(c.addr, c.now)) < LoginBudget
    /\ use' = [k \in Token |-> IF k = c.tok THEN "open"
                               ELSE IF use[k] = "open" /\ owner[k] = c.addr THEN "retired"
                               ELSE use[k]]
    /\ owner' = [owner EXCEPT ![c.tok] = c.addr]
    /\ created' = [created EXCEPT ![c.tok] = c.now]
    /\ Return(w)
    /\ UNCHANGED <<clock, acct, handle, nextId>>

\* A link that works is spent, and its address has an account.
CompleteLogin(w) ==
    LET k == call[w].tok IN
    /\ call[w].op = "complete"
    /\ use[k] = "open" /\ created[k] + TokenTTL > call[w].now
    /\ use' = [use EXCEPT ![k] = "spent"]
    /\ \/ acct[owner[k]] # 0 /\ UNCHANGED <<acct, nextId>>
       \/ /\ acct[owner[k]] = 0
          /\ acct' = [acct EXCEPT ![owner[k]] = nextId]
          /\ nextId' = nextId + 1
    /\ Return(w)
    /\ UNCHANGED <<clock, owner, created, handle>>

\* A deletion looks for the links of its account.
LookForLinks(w) ==
    LET c == call[w]
        found == NewCall("deleting", c.addr, c.tok, c.id, c.handle, c.now, LinksOf(c.addr))
    IN
    /\ c.op = "delete"
    /\ call' = [call EXCEPT ![w] = found]
    /\ UNCHANGED <<clock, tables>>

\* Links that are still there go, for the account or for their age.
Drop(K, how) == use' = [k \in Token |-> IF k \in K /\ use[k] \in OnRecord THEN how ELSE use[k]]

DeleteAccount(w) ==
    LET c == call[w] IN
    /\ c.op = "deleting"
    /\ acct[c.addr] = c.id
    /\ Drop(c.seen, "deleted")
    /\ acct' = [acct EXCEPT ![c.addr] = 0]
    /\ handle' = [handle EXCEPT ![c.addr] = None]
    /\ Return(w)
    /\ UNCHANGED <<clock, owner, created, nextId>>

\* The account the caller was signed in to takes a handle nobody has, once.  The
\* quarantine is not promised here: see HandleQuarantine.
ClaimHandle(w) ==
    LET c == call[w] IN
    /\ c.op = "claim"
    /\ acct[c.addr] = c.id /\ handle[c.addr] = None
    /\ \A b \in Addr : handle[b] # c.handle
    /\ handle' = [handle EXCEPT ![c.addr] = c.handle]
    /\ Return(w)
    /\ UNCHANGED <<clock, use, owner, created, acct, nextId>>

PurgeTokens(w) ==
    /\ call[w].op = "purge"
    /\ Drop(call[w].seen, "purged")
    /\ Return(w)
    /\ UNCHANGED <<clock, owner, created, acct, handle, nextId>>

Tick ==
    /\ clock' = clock + 1
    /\ UNCHANGED <<tables, call>>

Effect(w) ==
    \/ RequestLogin(w) \/ CompleteLogin(w) \/ DeleteAccount(w)
    \/ ClaimHandle(w) \/ PurgeTokens(w)

Next ==
    \/ \E w \in Worker :
          \/ Begins(w) /\ Call(w)
          \/ LookForLinks(w)
          \/ Returns(w) /\ (Effect(w) \/ NoEffect(w))
    \/ Tick

Spec == Init /\ [][Next]_bVars
===============================================================================
