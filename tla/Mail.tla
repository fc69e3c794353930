--------------------------------- MODULE Mail ---------------------------------
(***************************************************************************)
(* Sending a login link: the end of handleLoginRequest and SMTPSender.Send *)
(* (internal/mail/smtp.go) against a relay that may be slow, silent or     *)
(* unwilling at every exchange.  All requests are for one address, and all *)
(* links but the newest are retired; nobody opens them here.               *)
(***************************************************************************)
EXTENDS Naturals, FiniteSets

CONSTANTS
    Req,         \* handlers that may run at the same time
    LoginBudget,
    Window,      \* LoginBudgetWindow, in ticks
    SendTimeout, \* defaultSendTimeout
    DialLimit,   \* how long the kernel tries to connect
    MaxTime,     \* bound: the clock
    LastRequest, \* bound: no request arrives later, so that all can end
    MaxLinks,    \* bound: links ever minted
    NoValue      \* no value

ASSUME TimeAssumption ==
    {LoginBudget, Window, SendTimeout, DialLimit, MaxTime, LastRequest, MaxLinks} \subseteq Nat
ASSUME NoValueAssumption == NoValue \notin Nat

VARIABLES
    now,
    relay,       \* what SMTP_HOST names
    minted,      \* when each link was committed
    accepted,    \* when the relay took the mail with each link
    send         \* each handler

mailVars == <<now, relay, minted, accepted, send>>

Link == 1..MaxLinks
Time == 0..MaxTime
Relays == {"remote", "localhost", "loopback"}   \* "loopback": 127.0.0.2 and the like
NoRequest == [at |-> "idle", link |-> NoValue, start |-> NoValue, deadline |-> NoValue, tls |-> FALSE]
Steps == {"idle", "dial", "hello", "starttls", "auth", "mail", "rcpt", "data", "write",
          "close", "quit", "check", "error"}
Conversation == {"hello", "starttls", "auth", "mail", "rcpt", "data", "write", "close", "quit"}

MailTypeOK ==
    /\ now \in Time /\ relay \in Relays
    /\ minted \in [Link -> Time \cup {NoValue}]
    /\ accepted \in [Link -> Time \cup {NoValue}]
    /\ send \in [Req ->
          [at : Steps, link : Link \cup {NoValue}, start : Time \cup {NoValue},
           deadline : 0..(MaxTime + SendTimeout) \cup {NoValue}, tls : BOOLEAN]]

MailInit ==
    /\ now = 0 /\ relay \in Relays
    /\ minted = [l \in Link |-> NoValue]
    /\ accepted = [l \in Link |-> NoValue]
    /\ send = [r \in Req |-> NoRequest]
-------------------------------------------------------------------------------
(* handleLoginRequest up to the send: RequestLogin, which Accounts takes   *)
(* apart, commits the link or answers as if it had.                        *)

Free(r) == send[r].at \in {"idle", "check", "error"} /\ now <= LastRequest

WithinBudget ==
    Cardinality({l \in Link : minted[l] # NoValue /\ now - minted[l] < Window}) < LoginBudget

\* Send computes the deadline before it dials: no request has one of its own.
Deadline == now + SendTimeout

RequestLogin(r) ==
    /\ Free(r) /\ WithinBudget
    /\ \E l \in Link :
          /\ minted[l] = NoValue /\ \A k \in 1..(l - 1) : minted[k] # NoValue
          /\ minted' = [minted EXCEPT ![l] = now]
          /\ send' = [send EXCEPT ![r] =
                [at |-> "dial", link |-> l, start |-> now, deadline |-> Deadline, tls |-> FALSE]]
    /\ UNCHANGED <<now, relay, accepted>>

LoginBudgetExceeded(r) ==
    /\ Free(r) /\ ~WithinBudget
    /\ send' = [send EXCEPT ![r] = [NoRequest EXCEPT !.at = "check"]]
    /\ UNCHANGED <<now, relay, minted, accepted>>

\* Send returned an error: internal server error.
Fail(r) ==
    /\ send' = [send EXCEPT ![r].at = "error"]
    /\ UNCHANGED <<now, relay, minted, accepted>>

Goto(r, step) ==
    /\ send' = [send EXCEPT ![r].at = step]
    /\ UNCHANGED <<now, relay, minted, accepted>>
-------------------------------------------------------------------------------
(* sendMailWithDeadline                                                    *)

\* Defect: the connection gets a fresh deadline.
ConnDeadlineFresh(r) == now + SendTimeout

ConnDeadline(r) == send[r].deadline

Dial(r) ==
    /\ send[r].at = "dial"
    /\ send' = [send EXCEPT ![r].at = "hello", ![r].deadline = ConnDeadline(r)]
    /\ UNCHANGED <<now, relay, minted, accepted>>

\* The relay refuses, the kernel gives up, or the browser goes away.
DialFails(r) == send[r].at = "dial" /\ Fail(r)

\* No reply comes once the connection's deadline has passed.
InTime(r) == now < send[r].deadline

isLoopbackHost == relay \in {"localhost", "loopback"}

\* Which way the switch on the extensions goes.
AfterHello(offered) ==
    IF offered THEN "starttls" ELSE IF isLoopbackHost THEN "auth" ELSE "error"

Hello(r) ==
    /\ send[r].at = "hello" /\ InTime(r)
    /\ \E offered \in BOOLEAN : Goto(r, AfterHello(offered))

StartTLS(r) ==
    /\ send[r].at = "starttls" /\ InTime(r)
    /\ send' = [send EXCEPT ![r].at = "auth", ![r].tls = TRUE]
    /\ UNCHANGED <<now, relay, minted, accepted>>

\* net/smtp: the password leaves only over TLS or to a host called localhost.
PlainAuth(r) == send[r].tls \/ relay = "localhost"

Auth(r) == send[r].at = "auth" /\ InTime(r) /\ PlainAuth(r) /\ Goto(r, "mail")

AuthRefused(r) == send[r].at = "auth" /\ ~PlainAuth(r) /\ Fail(r)

AfterCommand == [mail |-> "rcpt", rcpt |-> "data", data |-> "write", write |-> "close"]

\* MAIL, RCPT, DATA and the message itself.
Command(r) ==
    /\ send[r].at \in DOMAIN AfterCommand /\ InTime(r)
    /\ Goto(r, AfterCommand[send[r].at])

\* The relay takes the message at the final dot; its reply is a step of its own.
RelayAccepts(r) ==
    /\ send[r].at = "close" /\ accepted[send[r].link] = NoValue /\ InTime(r)
    /\ accepted' = [accepted EXCEPT ![send[r].link] = now]
    /\ UNCHANGED <<now, relay, minted, send>>

\* Defect: the error of w.Close is dropped.
CloseIgnored(r) == send[r].at = "close" /\ Goto(r, "quit")

Close(r) ==
    /\ send[r].at = "close" /\ accepted[send[r].link] # NoValue /\ InTime(r)
    /\ Goto(r, "quit")

Quit(r) == send[r].at = "quit" /\ InTime(r) /\ Goto(r, "check")

\* Defect: the connection has no deadline, so only a reply ends an exchange.
ExchangeFailsReply(r) == send[r].at \in Conversation /\ InTime(r) /\ Fail(r)

\* An error reply, a broken connection, or nothing until the deadline.
ExchangeFails(r) == send[r].at \in Conversation /\ Fail(r)
-------------------------------------------------------------------------------
\* Timers fire: the kernel stops connecting after DialLimit, and a read or a
\* write ends with the connection's deadline.
TimersDue(r) ==
    \/ send[r].at = "dial" /\ now >= send[r].start + DialLimit
    \/ send[r].at \in Conversation /\ now >= send[r].deadline

Tick ==
    /\ now < MaxTime /\ \A r \in Req : ~TimersDue(r)
    /\ now' = now + 1
    /\ UNCHANGED <<relay, minted, accepted, send>>

Exchange(r) ==
    \/ Hello(r) \/ StartTLS(r) \/ Auth(r) \/ Command(r) \/ RelayAccepts(r) \/ Close(r) \/ Quit(r)

MailNext ==
    \/ Tick
    \/ \E r \in Req :
          \/ RequestLogin(r) \/ LoginBudgetExceeded(r)
          \/ Dial(r) \/ DialFails(r) \/ AuthRefused(r)
          \/ Exchange(r) \/ ExchangeFails(r)

MailSpec == MailInit /\ [][MailNext]_mailVars

\* The relay owes nobody an answer; only the timers are sure to fire.
MailFairSpec ==
    /\ MailSpec
    /\ \A r \in Req :
          WF_mailVars(TimersDue(r) /\ (DialFails(r) \/ ExchangeFails(r)))
    /\ WF_mailVars(Tick)
-------------------------------------------------------------------------------
\* handleLoginRequest's page "check your email", after a send: the relay has taken
\* the mail with that link.  Any lost or late reply must turn into an error.
AnswerHonest ==
    \A r \in Req : send[r].at = "check" /\ send[r].link # NoValue => accepted[send[r].link] # NoValue

\* A link is a credential and so is SMTP_PASSWORD: the message, and the password
\* before it, leave the machine only after STARTTLS.
LinkProtected ==
    \A r \in Req : send[r].at \in {"mail", "rcpt", "data", "write", "close", "quit", "check"}
                        /\ send[r].link # NoValue
                    => send[r].tls \/ isLoopbackHost

Sending(r) == send[r].at = "dial" \/ send[r].at \in Conversation

\* A handler is busy no longer than the longer of a connection attempt and
\* defaultSendTimeout: the two do not add up, however slow the relay is.
SendBounded ==
    \A r \in Req : Sending(r) =>
        now <= send[r].start + (IF DialLimit > SendTimeout THEN DialLimit ELSE SendTimeout)

\* LoginBudget, "at most this many emails per window", as the inbox sees it: the
\* budget counts the links, a send delays its mail, and still any stretch of time
\* shorter than the window by SendTimeout brings at most LoginBudget mails.
InboxRate ==
    \A t \in Time :
        Cardinality({l \in Link : accepted[l] # NoValue /\ accepted[l] >= t
                                    /\ accepted[l] < t + (Window - SendTimeout)}) <= LoginBudget

\* Every request is answered, although the relay may never say a word.
RequestEnds == \A r \in Req : Sending(r) ~> ~Sending(r)

\* Whatever the relay answers, and whenever: the page is true and the link was
\* protected on its way.
MailHonest == MailTypeOK /\ AnswerHonest /\ LinkProtected

\* Neither the handler nor the inbox pays for a slow relay: sends end in time, and
\* delayed mails do not add up beyond the budget.
SendTimed == SendBounded /\ InboxRate
===============================================================================
