------------------------------ MODULE SiteProofs ------------------------------
(***************************************************************************)
(* The site, for any hosts, handles and sequence of requests, edits and    *)
(* restarts.                                                               *)
(*                                                                         *)
(* Configuration: a process runs with what Load made of an environment     *)
(* Validate accepted, which is all that ModesApart and HostsLead need      *)
(* besides facts about sequences of labels.  Requests: the argument goes   *)
(* layer by layer.  What the headers, the gates and the limits are is a    *)
(* matter of how far the request has come and of the surface it is for,    *)
(* and no step changes the surface.                                        *)
(***************************************************************************)
EXTENDS Pipeline, SequenceTheorems, TLAPS

\* The process runs with a configuration Validate accepted.
Vetted == Running => \E e \in Values : Accepts(e) /\ server = Loaded(e)
-------------------------------------------------------------------------------
(* Labels.                                                                 *)

LEMMA ReverseProperties ==
    ASSUME NEW S, NEW s \in Seq(S)
    PROVE  /\ Reverse(s) \in Seq(S) /\ Len(Reverse(s)) = Len(s)
           /\ \A i \in 1..Len(s) : Reverse(s)[i] = s[Len(s) - i + 1]
<1>1. Len(s) \in Nat /\ \A i \in 1..Len(s) : s[Len(s) - i + 1] \in S
  BY LenProperties, ElementOfSeq
<1> QED
  BY <1>1 DEF Reverse

\* A strict suffix is what is left after at least one label.
LEMMA StrictSuffix ==
    ASSUME NEW S, NEW s \in Seq(S), NEW t \in Seq(S)
    PROVE  IsStrictSuffix(s, t) <=>
               /\ Len(s) < Len(t)
               /\ \A i \in 1..Len(s) : s[i] = t[i + Len(t) - Len(s)]
<1> DEFINE rs == Reverse(s)
           rt == Reverse(t)
<1>1. /\ rs \in Seq(S) /\ Len(rs) = Len(s) /\ Len(s) \in Nat
      /\ \A i \in 1..Len(s) : rs[i] = s[Len(s) - i + 1]
  BY ReverseProperties, LenProperties
<1>2. /\ rt \in Seq(S) /\ Len(rt) = Len(t) /\ Len(t) \in Nat
      /\ \A i \in 1..Len(t) : rt[i] = t[Len(t) - i + 1]
  BY ReverseProperties, LenProperties
<1>3. IsStrictSuffix(s, t) <=>
          Len(s) <= Len(t) /\ SubSeq(rs, 1, Len(s)) = SubSeq(rt, 1, Len(s)) /\ s # t
  BY <1>1, <1>2 DEF IsStrictSuffix, IsSuffix, IsPrefix
<1> HIDE DEF rs, rt
<1>4. Len(s) <= Len(t) =>
         (SubSeq(rs, 1, Len(s)) = SubSeq(rt, 1, Len(s)) <=> \A i \in 1..Len(s) : rs[i] = rt[i])
  BY <1>1, <1>2
<1>5. Len(s) <= Len(t) =>
         ((\A i \in 1..Len(s) : rs[i] = rt[i])
              <=> \A i \in 1..Len(s) : s[i] = t[i + Len(t) - Len(s)])
  <2>1. SUFFICES ASSUME Len(s) <= Len(t)
                 PROVE  (\A i \in 1..Len(s) : rs[i] = rt[i])
                            <=> \A i \in 1..Len(s) : s[i] = t[i + Len(t) - Len(s)]
    OBVIOUS
  <2>2. ASSUME \A i \in 1..Len(s) : rs[i] = rt[i], NEW i \in 1..Len(s)
        PROVE  s[i] = t[i + Len(t) - Len(s)]
    <3> DEFINE j == Len(s) - i + 1
    <3>1. j \in 1..Len(s) /\ j \in 1..Len(t)
      BY <1>1, <1>2, <2>1
    <3>2. rs[j] = s[Len(s) - j + 1] /\ rt[j] = t[Len(t) - j + 1]
      BY <3>1, <1>1, <1>2
    <3>3. Len(s) - j + 1 = i /\ Len(t) - j + 1 = i + Len(t) - Len(s)
      BY <1>1, <1>2
    <3> QED
      BY <2>2, <3>1, <3>2, <3>3
  <2>3. ASSUME \A i \in 1..Len(s) : s[i] = t[i + Len(t) - Len(s)], NEW i \in 1..Len(s)
        PROVE  rs[i] = rt[i]
    <3> DEFINE j == Len(s) - i + 1
    <3>1. j \in 1..Len(s) /\ j + Len(t) - Len(s) = Len(t) - i + 1 /\ i \in 1..Len(t)
      BY <1>1, <1>2, <2>1
    <3>2. rs[i] = s[j] /\ rt[i] = t[Len(t) - i + 1]
      BY <3>1, <1>1, <1>2
    <3> QED
      BY <2>3, <3>1, <3>2
  <2> QED
    BY <2>2, <2>3
<1>6. s # t <=> Len(s) # Len(t) \/ \E i \in 1..Len(s) : s[i] # t[i]
  BY SeqEqual
<1>7. Len(s) = Len(t) => \A i \in 1..Len(s) : i + Len(t) - Len(s) = i
  BY <1>1, <1>2
<1>8. CASE Len(s) < Len(t)
  <2>1. Len(s) <= Len(t) /\ s # t
    BY <1>8, <1>1, <1>2
  <2>2. IsStrictSuffix(s, t) <=> \A i \in 1..Len(s) : s[i] = t[i + Len(t) - Len(s)]
    BY <2>1, <1>3, <1>4, <1>5
  <2> QED
    BY <2>2, <1>8
<1>9. CASE Len(s) = Len(t)
  <2>1. IsStrictSuffix(s, t) <=> (\A i \in 1..Len(s) : s[i] = t[i]) /\ s # t
    BY <1>9, <1>1, <1>2, <1>3, <1>4, <1>5, <1>7
  <2> QED
    BY <2>1, <1>6, <1>9, <1>1, <1>2
<1>10. CASE Len(s) > Len(t)
  BY <1>10, <1>1, <1>2, <1>3
<1> QED
  BY <1>1, <1>2, <1>8, <1>9, <1>10

\* PageHostFor puts one label in front, and handleFromHost finds it there.
LEMMA OneLabelMore ==
    ASSUME NEW S, NEW h \in S, NEW s \in Seq(S)
    PROVE  /\ <<h>> \o s \in Seq(S) /\ Len(<<h>> \o s) = Len(s) + 1 /\ Len(s) \in Nat
           /\ Head(<<h>> \o s) = h
           /\ IsStrictSuffix(s, <<h>> \o s)
           /\ \A t \in Seq(S) :
                 IsStrictSuffix(s, t) /\ Len(t) = Len(s) + 1 /\ Head(t) = h => t = <<h>> \o s
<1> DEFINE u == <<h>> \o s
<1>1. /\ u \in Seq(S) /\ Len(u) = Len(s) + 1 /\ Len(s) \in Nat
      /\ u[1] = h /\ \A i \in 1..Len(s) : u[i + 1] = s[i]
  OBVIOUS
<1>2. Head(u) = h
  BY <1>1, HeadTailProperties, EmptySeq
<1> HIDE DEF u
<1>3. IsStrictSuffix(s, u)
  BY <1>1, StrictSuffix
<1>4. ASSUME NEW t \in Seq(S), IsStrictSuffix(s, t), Len(t) = Len(s) + 1, Head(t) = h
      PROVE  t = u
  <2>1. \A i \in 1..Len(s) : s[i] = t[i + 1]
    BY <1>1, <1>4, StrictSuffix
  <2>2. t[1] = h
    BY <1>1, <1>4
  <2>3. ASSUME NEW i \in 1..Len(t) PROVE t[i] = u[i]
    <3>1. CASE i = 1
      BY <3>1, <2>2, <1>1
    <3>2. CASE i # 1
      <4>1. i - 1 \in 1..Len(s) /\ (i - 1) + 1 = i
        BY <3>2, <1>1, <1>4
      <4> QED
        BY <4>1, <2>1, <1>1
    <3> QED
      BY <3>1, <3>2
  <2> QED
    BY <2>3, <1>1, <1>4, SeqEqual
<1> QED
  BY <1>1, <1>2, <1>3, <1>4 DEF u
-------------------------------------------------------------------------------
(* Hosts.                                                                  *)

LEMMA HandlesAreLabels == \A h \in Handles : h \in Label /\ h # None
BY HostAssumption

LEMMA NoneIsNoPort == None \notin Nat
BY HostAssumption

LEMMA SameHost ==
    ASSUME NEW g \in HostForm, NEW h \in HostForm,
           g.labels = h.labels, g.caps = h.caps, g.port = h.port
    PROVE  g = h
BY DEF HostForm

LEMMA HostFields ==
    ASSUME NEW h \in HostForm
    PROVE  h.labels \in Seq(Label) /\ h.caps \in BOOLEAN /\ h.port \in Nat \cup {None}
BY DEF HostForm

LEMMA Spelled ==
    ASSUME NEW h \in HostForm, NEW p \in Nat \cup {None}
    PROVE  LET g == [h EXCEPT !.caps = FALSE, !.port = p]
           IN  g \in HostForm /\ g.labels = h.labels /\ g.caps = FALSE /\ g.port = p
BY DEF HostForm

\* The port canonicalHost leaves.
PortLeft(p) == IF p \in {80, 443} THEN None ELSE p

LEMMA PortsLeft ==
    /\ \A p \in Nat \cup {None} : PortLeft(p) \in Nat \cup {None}
    /\ PortLeft(None) = None
    /\ \A p \in {80, 443} : PortLeft(p) = None
BY NoneIsNoPort DEF PortLeft

LEMMA Canonical ==
    ASSUME NEW h \in HostForm
    PROVE  /\ canonicalHost(h) \in HostForm
           /\ canonicalHost(h).labels = h.labels /\ canonicalHost(h).caps = FALSE
           /\ canonicalHost(h).port = PortLeft(h.port)
<1> DEFINE p == PortLeft(h.port)
<1>1. p \in Nat \cup {None}
  BY HostFields, PortsLeft
<1>2. canonicalHost(h) = [h EXCEPT !.caps = FALSE, !.port = p]
  BY DEF canonicalHost, PortLeft
<1> HIDE DEF p
<1>3. LET g == [h EXCEPT !.caps = FALSE, !.port = p]
      IN  g \in HostForm /\ g.labels = h.labels /\ g.caps = FALSE /\ g.port = p
  BY <1>1, Spelled
<1> QED
  BY <1>2, <1>3 DEF p

LEMMA CanonicalPort ==
    ASSUME NEW g \in HostForm, NEW h \in HostForm, g.port = h.port
    PROVE  canonicalHost(g).port = canonicalHost(h).port
<1>1. canonicalHost(g).port = PortLeft(h.port)
  BY Canonical
<1>2. canonicalHost(h).port = PortLeft(h.port)
  BY Canonical
<1> QED
  BY <1>1, <1>2

LEMMA HostOnly ==
    ASSUME NEW h \in HostForm
    PROVE  /\ hostOnly(h) \in HostForm
           /\ hostOnly(h).labels = h.labels /\ hostOnly(h).caps = h.caps
           /\ hostOnly(h).port = None
BY DEF HostForm, hostOnly

LEMMA PageHost ==
    ASSUME NEW c, c.PagesHost \in HostForm, NEW h \in Handles
    PROVE  /\ PageHostFor(c, h) \in HostForm
           /\ PageHostFor(c, h).labels = <<h>> \o c.PagesHost.labels
           /\ PageHostFor(c, h).caps = c.PagesHost.caps
           /\ PageHostFor(c, h).port = c.PagesHost.port
<1>1. <<h>> \o c.PagesHost.labels \in Seq(Label)
  BY HandlesAreLabels, HostFields, OneLabelMore
<1> QED
  BY <1>1 DEF HostForm, PageHostFor

\* What a browser leaves out of a URL of ours makes no difference to the split.
LEMMA Header ==
    ASSUME NEW c, NEW h \in HostForm
    PROVE  /\ HostHeader(URL(c, h)) \in HostForm
           /\ canonicalHost(HostHeader(URL(c, h))) = canonicalHost(h)
<1> DEFINE url == URL(c, h)
           g == HostHeader(url)
<1>1. url.host = h
  BY DEF URL
<1>2. /\ g \in HostForm /\ g.labels = h.labels /\ g.caps = FALSE
      /\ g.port = h.port \/ (g.port = None /\ h.port \in {80, 443})
  <2> DEFINE p == IF <<url.scheme, h.port>> \in {<<"https", 443>>, <<"http", 80>>}
                  THEN None ELSE h.port
  <2>1. p \in Nat \cup {None}
    BY HostFields
  <2>2. g = [h EXCEPT !.caps = FALSE, !.port = p]
    BY <1>1 DEF HostHeader
  <2> HIDE DEF p, g
  <2>4. p = h.port \/ (p = None /\ h.port \in {80, 443})
    BY DEF p
  <2>3. LET k == [h EXCEPT !.caps = FALSE, !.port = p]
        IN  k \in HostForm /\ k.labels = h.labels /\ k.caps = FALSE /\ k.port = p
    BY <2>1, Spelled
  <2> QED
    BY <2>2, <2>3, <2>4
<1> HIDE DEF g
<1>3. canonicalHost(g).port = canonicalHost(h).port
  <2>1. canonicalHost(g).port = PortLeft(g.port)
    BY <1>2, Canonical
  <2>2. canonicalHost(h).port = PortLeft(h.port)
    BY Canonical
  <2> QED
    BY <2>1, <2>2, <1>2, PortsLeft
<1>4. /\ canonicalHost(g) \in HostForm /\ canonicalHost(g).labels = h.labels
      /\ canonicalHost(g).caps = FALSE
  BY <1>2, Canonical
<1>5. /\ canonicalHost(h) \in HostForm /\ canonicalHost(h).labels = h.labels
      /\ canonicalHost(h).caps = FALSE
  BY Canonical
<1>6. canonicalHost(g) = canonicalHost(h)
  BY <1>3, <1>4, <1>5, SameHost
<1> QED
  BY <1>2, <1>6 DEF g

\* A host is split off as a page just if it is the host of that page.
LEMMA HandleFound ==
    ASSUME NEW c, c.PagesHost \in HostForm, NEW g \in HostForm
    PROVE  LET found == handleFromHost(canonicalHost(g), canonicalHost(c.PagesHost))
           IN  /\ found \in Handles \cup {None}
               /\ \A h \in Handles :
                     found = h <=> canonicalHost(g) = canonicalHost(PageHostFor(c, h))
<1> DEFINE host == canonicalHost(g)
           pages == canonicalHost(c.PagesHost)
           found == handleFromHost(host, pages)
<1>1. found \in Handles \cup {None}
  BY DEF handleFromHost
<1>2. ASSUME NEW h \in Handles
      PROVE  found = h <=> host = canonicalHost(PageHostFor(c, h))
  <2> DEFINE target == canonicalHost(PageHostFor(c, h))
  <2>1. /\ host \in HostForm /\ pages \in HostForm /\ target \in HostForm
        /\ host.caps = FALSE /\ pages.caps = FALSE /\ target.caps = FALSE
        /\ target.labels = <<h>> \o pages.labels /\ target.port = pages.port
    <3>1. /\ PageHostFor(c, h) \in HostForm
          /\ PageHostFor(c, h).labels = <<h>> \o c.PagesHost.labels
          /\ PageHostFor(c, h).port = c.PagesHost.port
      BY PageHost
    <3>2. host \in HostForm /\ host.caps = FALSE
      BY Canonical
    <3>3. pages \in HostForm /\ pages.caps = FALSE /\ pages.labels = c.PagesHost.labels
      BY Canonical
    <3>4. /\ target \in HostForm /\ target.caps = FALSE
          /\ target.labels = PageHostFor(c, h).labels
      BY <3>1, Canonical
    <3>5. target.port = pages.port
      BY <3>1, CanonicalPort
    <3> QED
      BY <3>1, <3>2, <3>3, <3>4, <3>5
  <2>2. /\ host.labels \in Seq(Label) /\ pages.labels \in Seq(Label)
        /\ h \in Label /\ h # None
    BY <2>1, HostFields, HandlesAreLabels
  <2> HIDE DEF host, pages, target
  <2>3. found = h <=> /\ host.port = pages.port
                      /\ IsStrictSuffix(pages.labels, host.labels)
                      /\ Len(host.labels) = Len(pages.labels) + 1
                      /\ Head(host.labels) = h
    BY <2>1, <2>2 DEF handleFromHost, Under
  <2>4. host = target <=> host.labels = target.labels /\ host.port = target.port
    BY <2>1, SameHost
  <2>5. /\ Len(target.labels) = Len(pages.labels) + 1 /\ Head(target.labels) = h
        /\ IsStrictSuffix(pages.labels, target.labels)
    BY <2>1, <2>2, OneLabelMore
  <2>6. IsStrictSuffix(pages.labels, host.labels) /\ Len(host.labels) = Len(pages.labels) + 1
           /\ Head(host.labels) = h => host.labels = target.labels
    BY <2>1, <2>2, OneLabelMore
  <2>7. host = target => found = h
    BY <2>1, <2>3, <2>4, <2>5
  <2>8. found = h => host = target
    BY <2>1, <2>3, <2>4, <2>6
  <2> QED
    BY <2>7, <2>8 DEF host, target
<1> QED
  BY <1>1, <1>2

LEMMA Split ==
    ASSUME NEW c, c.AppHost \in HostForm, c.PagesHost \in HostForm, NEW g \in HostForm
    PROVE  LET isApp == canonicalHost(g) = canonicalHost(c.AppHost)
               isPage(h) == canonicalHost(g) = canonicalHost(PageHostFor(c, h))
               split == hostSplit(c, g)
           IN  /\ split.to \in {"app", "redirect", "notfound", "page"}
               /\ isApp => split = [to |-> "app"]
               /\ split.to = "app" => isApp
               /\ \A h \in Handles :
                     split = [to |-> "page", handle |-> h] <=> ~isApp /\ isPage(h)
               /\ split.to = "page" => ~isApp /\ \E h \in Handles : isPage(h)
<1> DEFINE host == canonicalHost(g)
           appHost == canonicalHost(c.AppHost)
           pages == canonicalHost(c.PagesHost)
           found == handleFromHost(host, pages)
           split == hostSplit(c, g)
<1>1. /\ found \in Handles \cup {None}
      /\ \A h \in Handles : found = h <=> host = canonicalHost(PageHostFor(c, h))
  BY HandleFound
<1>2. \A h \in Handles : h # None
  BY HandlesAreLabels
<1>3. host = pages => found = None
  <2>1. pages.labels \in Seq(Label)
    BY Canonical, HostFields
  <2>2. Len(pages.labels) # Len(pages.labels) + 1
    BY <2>1
  <2> QED
    BY <2>2 DEF handleFromHost
<1>4. split = CASE host = appHost -> [to |-> "app"]
                [] host # appHost /\ host = pages -> [to |-> "redirect"]
                [] OTHER -> IF found = None THEN [to |-> "notfound"]
                                            ELSE [to |-> "page", handle |-> found]
  BY DEF hostSplit
<1> HIDE DEF host, appHost, pages, found, split
<1>5. CASE host = appHost
  <2>1. split = [to |-> "app"] /\ split.to = "app"
    BY <1>4, <1>5
  <2>2. \A h : split # [to |-> "page", handle |-> h]
    BY <2>1
  <2> QED
    BY <2>1, <2>2, <1>5 DEF host, appHost, split
<1>6. CASE host # appHost /\ found = None
  <2>1. split.to \in {"redirect", "notfound"}
    BY <1>4, <1>6
  <2>2. \A h : split # [to |-> "page", handle |-> h]
    BY <2>1
  <2> QED
    BY <2>1, <2>2, <1>6, <1>1, <1>2 DEF host, appHost, split
<1>7. CASE host # appHost /\ found # None
  <2>1. split = [to |-> "page", handle |-> found] /\ found \in Handles
    BY <1>4, <1>7, <1>3, <1>1
  <2>2. split.to = "page" /\ split.handle = found
    BY <2>1
  <2>3. \A h : split = [to |-> "page", handle |-> h] <=> h = found
    BY <2>1, <2>2
  <2> QED
    BY <2>1, <2>2, <2>3, <1>7, <1>1, <1>2 DEF host, appHost, split
<1> QED
  BY <1>5, <1>6, <1>7
-------------------------------------------------------------------------------
(* Configuration.                                                          *)

\* What Load gives each field, and what Validate leaves of it.
LEMMA LoadedFields ==
    ASSUME NEW e \in Values
    PROVE  /\ Loaded(e).Env = IF e.ENV = "" THEN "development" ELSE e.ENV
           /\ e.ENV \in {"", "development", "production", "staging"}
           /\ Loaded(e).SMTP = e.SMTP /\ e.SMTP \in SUBSET SMTPVars
           /\ Loaded(e).MailSender = e.MAIL_SENDER
           /\ Loaded(e).PhotosDir \in {"", "relative", "absolute"}
           /\ Loaded(e).ShutdownTimeout \in {"soon", "0s", "10s", "15s"}
           /\ DurationParses(e) => Loaded(e).ShutdownTimeout # "soon"
BY DEF Loaded, Values, Or, photosDir, DurationParses

LEMMA LoadedLegal ==
    ASSUME NEW e \in Values
    PROVE  /\ Loaded(e).OperatorName \in {"", "someone", "placeholder"}
           /\ Loaded(e).ContactEmail \in {"", "typo", "address", "placeholder"}
           /\ Loaded(e).OperatorName = "" => IsProduction(Loaded(e))
           /\ Loaded(e).ContactEmail = "" => IsProduction(Loaded(e))
           /\ IsProduction(Loaded(e)) =>
                 "placeholder" \notin {Loaded(e).OperatorName, Loaded(e).ContactEmail}
<1>1. /\ e.ENV \in {"", "development", "production", "staging"}
      /\ e.OPERATOR_NAME \in {"", "blank", "someone"}
      /\ e.CONTACT_EMAIL \in {"", "blank", "typo", "address"}
  BY DEF Values
<1>2. /\ Loaded(e).OperatorName = legalValue(e, e.OPERATOR_NAME)
      /\ Loaded(e).ContactEmail = legalValue(e, e.CONTACT_EMAIL)
      /\ Loaded(e).Env = Or(e.ENV, "development")
  BY DEF Loaded
<1>3. IsProduction(Loaded(e)) <=> e.ENV = "production"
  BY <1>1, <1>2 DEF IsProduction, Or
<1> QED
  BY <1>1, <1>2, <1>3 DEF legalValue, Or, Trimmed

LEMMA LoadedHosts ==
    ASSUME NEW e \in Values
    PROVE  /\ Loaded(e).AppHost \in Host \cup {DefaultAppHost}
           /\ Loaded(e).PagesHost \in Host \cup {DefaultPagesHost}
           /\ Loaded(e).AppHost \in HostForm /\ Loaded(e).PagesHost \in HostForm
<1>1. e.APP_HOST \in Host \cup {None} /\ e.PAGES_HOST \in Host \cup {None}
  BY DEF Values
<1>2. /\ Loaded(e).AppHost = OrHost(e.APP_HOST, DefaultAppHost)
      /\ Loaded(e).PagesHost = OrHost(e.PAGES_HOST, DefaultPagesHost)
  BY DEF Loaded
<1>3. DefaultAppHost \in HostForm /\ DefaultPagesHost \in HostForm
  <2>1. <<"app", "localhost">> \in Seq(Label) /\ <<"pages", "localhost">> \in Seq(Label)
    BY HostAssumption
  <2>2. 8080 \in Nat \cup {None} /\ FALSE \in BOOLEAN
    OBVIOUS
  <2>3. \A labels \in Seq(Label) : [labels |-> labels, caps |-> FALSE, port |-> 8080] \in HostForm
    BY <2>2 DEF HostForm
  <2> DEFINE app == <<"app", "localhost">>
             pages == <<"pages", "localhost">>
  <2>4. /\ DefaultAppHost = [labels |-> app, caps |-> FALSE, port |-> 8080]
        /\ DefaultPagesHost = [labels |-> pages, caps |-> FALSE, port |-> 8080]
    BY DEF DefaultAppHost, DefaultPagesHost
  <2> HIDE DEF app, pages
  <2>5. app \in Seq(Label) /\ pages \in Seq(Label)
    BY <2>1 DEF app, pages
  <2> QED
    BY <2>3, <2>4, <2>5
<1> QED
  BY <1>1, <1>2, <1>3, HostAssumption DEF OrHost

LEMMA Assembled ==
    ASSUME NEW S1, NEW S2, NEW S3, NEW S4, NEW S5, NEW S6, NEW S7, NEW S8, NEW S9, NEW S10,
           NEW S11, NEW c,
           c = [Env |-> c.Env, Addr |-> c.Addr, AdminAddr |-> c.AdminAddr,
                DatabaseURL |-> c.DatabaseURL, SMTP |-> c.SMTP, MailSender |-> c.MailSender,
                PhotosDir |-> c.PhotosDir, OperatorName |-> c.OperatorName,
                ContactEmail |-> c.ContactEmail, ShutdownTimeout |-> c.ShutdownTimeout,
                AppHost |-> c.AppHost, PagesHost |-> c.PagesHost],
           c.Env \in S1, c.Addr \in S2, c.AdminAddr \in S2, c.DatabaseURL \in S3, c.SMTP \in S4,
           c.MailSender \in S5, c.PhotosDir \in S6, c.OperatorName \in S7, c.ContactEmail \in S8,
           c.ShutdownTimeout \in S9, c.AppHost \in S10, c.PagesHost \in S11
    PROVE  c \in [Env : S1, Addr : S2, AdminAddr : S2, DatabaseURL : S3, SMTP : S4,
                  MailSender : S5, PhotosDir : S6, OperatorName : S7, ContactEmail : S8,
                  ShutdownTimeout : S9, AppHost : S10, PagesHost : S11]
OBVIOUS

LEMMA AcceptedTyped ==
    ASSUME NEW e \in Values, Accepts(e)
    PROVE  Loaded(e) \in Configs
<1> DEFINE c == Loaded(e)
<1>1. Validate(c) /\ DurationParses(e)
  BY DEF Accepts
<1>2. /\ c.Env \in {"development", "production"} /\ c.Addr \in {"loopback"}
      /\ c.AdminAddr \in {"loopback"} /\ c.DatabaseURL \in {"tls", "plain"}
      /\ c.MailSender \in {"", "log"} /\ c.ShutdownTimeout # "0s"
      /\ c.PhotosDir # "" \/ ~IsProduction(c)
      /\ IsProduction(c) => c.OperatorName # "" /\ c.ContactEmail \in {"address", "placeholder"}
  BY <1>1 DEF Validate, validateDatabaseURL, ProductionRules, OtherRules, plausibleContactEmail
<1>3. c.PhotosDir \in {"relative", "absolute"}
  <2>1. c.PhotosDir = Or(e.PHOTOS_DIR, IF e.ENV = "production" THEN "" ELSE "relative")
    BY DEF Loaded, photosDir
  <2>2. e.PHOTOS_DIR \in {"", "relative", "absolute"}
    BY DEF Values
  <2> QED
    BY <1>2, <2>1, <2>2, LoadedFields DEF Or, IsProduction
<1>4. c.OperatorName \in {"someone", "placeholder"}
  BY <1>2, LoadedLegal
<1>5. c.ContactEmail \in {"typo", "address", "placeholder"}
  BY <1>2, LoadedLegal
<1>6. /\ c.SMTP \in SUBSET SMTPVars /\ c.ShutdownTimeout \in {"10s", "15s"}
  BY <1>1, <1>2, LoadedFields
<1>7. c.AppHost \in Host \cup {DefaultAppHost} /\ c.PagesHost \in Host \cup {DefaultPagesHost}
  BY LoadedHosts
<1>8. c = [Env |-> c.Env, Addr |-> c.Addr, AdminAddr |-> c.AdminAddr,
           DatabaseURL |-> c.DatabaseURL, SMTP |-> c.SMTP, MailSender |-> c.MailSender,
           PhotosDir |-> c.PhotosDir, OperatorName |-> c.OperatorName,
           ContactEmail |-> c.ContactEmail, ShutdownTimeout |-> c.ShutdownTimeout,
           AppHost |-> c.AppHost, PagesHost |-> c.PagesHost]
  BY DEF Loaded
<1> DEFINE Modes == {"development", "production"}
           Listens == {"loopback"}
           Databases == {"tls", "plain"}
           Mail == SUBSET SMTPVars
           Senders == {"", "log"}
           Dirs == {"relative", "absolute"}
           Operators == {"someone", "placeholder"}
           Contacts == {"typo", "address", "placeholder"}
           Timeouts == {"10s", "15s"}
           Apps == Host \cup {DefaultAppHost}
           Pages == Host \cup {DefaultPagesHost}
<1>9. Configs = [Env : Modes, Addr : Listens, AdminAddr : Listens, DatabaseURL : Databases,
                 SMTP : Mail, MailSender : Senders, PhotosDir : Dirs, OperatorName : Operators,
                 ContactEmail : Contacts, ShutdownTimeout : Timeouts, AppHost : Apps,
                 PagesHost : Pages]
  BY DEF Configs
<1>10. /\ c.Env \in Modes /\ c.Addr \in Listens /\ c.AdminAddr \in Listens
       /\ c.DatabaseURL \in Databases /\ c.SMTP \in Mail /\ c.MailSender \in Senders
       /\ c.PhotosDir \in Dirs /\ c.OperatorName \in Operators /\ c.ContactEmail \in Contacts
       /\ c.ShutdownTimeout \in Timeouts /\ c.AppHost \in Apps /\ c.PagesHost \in Pages
  BY <1>2, <1>3, <1>4, <1>5, <1>6, <1>7
<1> HIDE DEF c, Modes, Listens, Databases, Mail, Senders, Dirs, Operators, Contacts,
             Timeouts, Apps, Pages
<1>11. c \in [Env : Modes, Addr : Listens, AdminAddr : Listens, DatabaseURL : Databases,
               SMTP : Mail, MailSender : Senders, PhotosDir : Dirs, OperatorName : Operators,
               ContactEmail : Contacts, ShutdownTimeout : Timeouts, AppHost : Apps,
               PagesHost : Pages]
  BY <1>8, <1>10, Assembled
<1> QED
  BY <1>9, <1>11 DEF c

\* Validate sees what Load made of the gaps, and still nothing for development passes.
LEMMA VettedModes ==
    ASSUME env \in Values, Vetted
    PROVE  NothingForDevelopment /\ NeverBothModes
<1>1. ASSUME Running, IsProduction(server) PROVE NothingForDevelopment
  <2>1. PICK e \in Values : Accepts(e) /\ server = Loaded(e)
    BY <1>1 DEF Vetted
  <2>2. ProductionRules(server) /\ validateDatabaseURL(server)
    BY <1>1, <2>1 DEF Accepts, Validate
  <2>3. "placeholder" \notin {server.OperatorName, server.ContactEmail}
    BY <1>1, <2>1, LoadedLegal
  <2> QED
    BY <1>1, <2>2, <2>3
    DEF NothingForDevelopment, ProductionRules, validateDatabaseURL, newMailSender
<1>2. NeverBothModes
  <2> DEFINE In(mode) == [env EXCEPT !.ENV = mode]
  <2>1. \A mode \in {"", "development", "production", "staging"} :
           /\ In(mode) \in Values /\ In(mode).ENV = mode
           /\ In(mode).MAIL_SENDER = env.MAIL_SENDER
    BY DEF Values
  <2> HIDE DEF In
  <2>2. \A mode \in {"", "development", "production", "staging"} :
           /\ Loaded(In(mode)).Env = IF mode = "" THEN "development" ELSE mode
           /\ Loaded(In(mode)).MailSender = env.MAIL_SENDER
    <3>1. ASSUME NEW mode \in {"", "development", "production", "staging"}
          PROVE  /\ Loaded(In(mode)).Env = IF mode = "" THEN "development" ELSE mode
                 /\ Loaded(In(mode)).MailSender = env.MAIL_SENDER
      <4> DEFINE e == In(mode)
      <4>1. e \in Values /\ e.ENV = mode /\ e.MAIL_SENDER = env.MAIL_SENDER
        BY <2>1
      <4> HIDE DEF e
      <4>2. /\ Loaded(e).Env = (IF e.ENV = "" THEN "development" ELSE e.ENV)
            /\ Loaded(e).MailSender = e.MAIL_SENDER
        BY <4>1, LoadedFields
      <4> QED
        BY <4>1, <4>2 DEF e
    <3> QED
      BY <3>1
  <2>3. Accepts(In("production")) => env.MAIL_SENDER # "log"
    BY <2>2 DEF Accepts, Validate, ProductionRules, IsProduction
  <2>4. \A mode \in {"", "development", "staging"} :
           Accepts(In(mode)) => env.MAIL_SENDER = "log"
    BY <2>2 DEF Accepts, Validate, OtherRules, IsProduction
  <2> QED
    BY <2>3, <2>4 DEF NeverBothModes, In
<1> QED
  BY <1>1, <1>2 DEF NothingForDevelopment

LEMMA VettedServer ==
    ASSUME Vetted, Running
    PROVE  /\ server.AppHost \in HostForm /\ server.PagesHost \in HostForm
           /\ HostsApart(server)
BY LoadedHosts DEF Vetted, Accepts, Validate

\* hostSplit undoes BaseURL and PageBaseURL because Validate keeps the hosts apart.
LEMMA VettedHosts ==
    ASSUME Vetted
    PROVE  HostsLead
<1>1. ASSUME Running PROVE hostSplit(server, HostHeader(BaseURL(server))) = [to |-> "app"]
  <2> DEFINE g == HostHeader(URL(server, server.AppHost))
  <2>1. server.AppHost \in HostForm /\ server.PagesHost \in HostForm
    BY <1>1, VettedServer
  <2>2. g \in HostForm /\ canonicalHost(g) = canonicalHost(server.AppHost)
    BY <2>1, Header
  <2> HIDE DEF g
  <2>3. hostSplit(server, g) = [to |-> "app"]
    BY <2>1, <2>2, Split
  <2> QED
    BY <2>3 DEF g, BaseURL
<1>2. ASSUME Running, server.AppHost.caps = server.PagesHost.caps, NEW h \in Handles
      PROVE  hostSplit(server, HostHeader(PageBaseURL(server, h))) = [to |-> "page", handle |-> h]
  <2> DEFINE target == PageHostFor(server, h)
             g == HostHeader(URL(server, target))
  <2>1. /\ server.AppHost \in HostForm /\ server.PagesHost \in HostForm
        /\ HostsApart(server)
    BY <1>2, VettedServer
  <2>2. target \in HostForm /\ target.labels = <<h>> \o server.PagesHost.labels
    BY <2>1, PageHost
  <2>3. g \in HostForm /\ canonicalHost(g) = canonicalHost(target)
    BY <2>2, Header DEF target
  <2>4. canonicalHost(g) # canonicalHost(server.AppHost)
    <3>1. SUFFICES ASSUME canonicalHost(target) = canonicalHost(server.AppHost)
                   PROVE  FALSE
      BY <2>3
    <3>2. canonicalHost(target).labels = target.labels
      BY <2>2, Canonical
    <3>3. canonicalHost(server.AppHost).labels = server.AppHost.labels
      BY <2>1, Canonical
    <3>4. server.AppHost.labels = <<h>> \o server.PagesHost.labels
      BY <2>2, <3>1, <3>2, <3>3
    <3>5. IsStrictSuffix(server.PagesHost.labels, server.AppHost.labels)
      BY <2>1, <3>4, HandlesAreLabels, HostFields, OneLabelMore
    <3>6. /\ hostOnly(server.AppHost).labels = server.AppHost.labels
          /\ hostOnly(server.AppHost).caps = server.AppHost.caps
          /\ hostOnly(server.AppHost).port = None
      BY <2>1, HostOnly
    <3>7. /\ hostOnly(server.PagesHost).labels = server.PagesHost.labels
          /\ hostOnly(server.PagesHost).caps = server.PagesHost.caps
          /\ hostOnly(server.PagesHost).port = None
      BY <2>1, HostOnly
    <3>8. isSubdomainOf(hostOnly(server.AppHost), hostOnly(server.PagesHost))
      BY <1>2, <3>5, <3>6, <3>7 DEF isSubdomainOf, Under
    <3> QED
      BY <2>1, <3>8 DEF HostsApart
  <2> HIDE DEF target, g
  <2>5. hostSplit(server, g) = [to |-> "page", handle |-> h]
    BY <2>1, <2>3, <2>4, Split DEF target
  <2> QED
    BY <2>5 DEF g, target, PageBaseURL
<1>3. ASSUME Running, NEW h \in Handles, NEW host \in Host,
             hostSplit(server, host) = [to |-> "page", handle |-> h]
      PROVE  canonicalHost(host) = canonicalHost(PageHostFor(server, h))
  <2>1. server.AppHost \in HostForm /\ server.PagesHost \in HostForm /\ host \in HostForm
    BY <1>3, VettedServer, HostAssumption
  <2> QED
    BY <1>3, <2>1, Split
<1> QED
  BY <1>1, <1>2, <1>3 DEF HostsLead, LinksLand, PageReachable, PageAtItsHost

ConfigInv == TypeOK /\ Vetted

LEMMA InitConfig == Init => ConfigInv
<1> SUFFICES ASSUME Init PROVE ConfigInv
  OBVIOUS
<1>1. Unset \in Values
  BY DEF Unset, Values
<1>2. ASSUME NEW a \in Host, NEW b \in Host
      PROVE  Production(a, b) \in Values /\ Development(a, b) \in Values
  <2>1. Production(a, b) \in Values
    BY DEF Production, Values
  <2>2. Development(a, b) \in Values
    BY <2>1 DEF Development, Values
  <2> QED
    BY <2>1, <2>2
<1>3. env \in Values
  BY <1>1, <1>2 DEF Init
<1>4. edits \in 0..MaxEdits
  BY ConfigAssumption DEF Init
<1> QED
  BY <1>3, <1>4 DEF Init, ConfigInv, TypeOK, Vetted, Running

\* An edit is for the next start, which checks again.
LEMMA NextConfig == ASSUME ConfigInv, [Next]_vars PROVE ConfigInv'
<1>1. env \in Values /\ edits \in 0..MaxEdits
  BY DEF ConfigInv, TypeOK
<1>2. CASE Start
  <2>1. Loaded(env) \in Configs
    BY <1>1, <1>2, AcceptedTyped DEF Start
  <2> QED
    BY <1>1, <1>2, <2>1 DEF Start, ConfigInv, TypeOK, Vetted
<1>3. CASE Stop
  BY <1>1, <1>3 DEF Stop, ConfigInv, TypeOK, Vetted, Running
<1>4. ASSUME NEW var, NEW value, Edit(var, value), [env EXCEPT ![var] = value] \in Values
      PROVE  ConfigInv'
  <2>1. env' \in Values /\ edits' \in 0..MaxEdits /\ server' = server
    BY <1>1, <1>4, ConfigAssumption DEF Edit
  <2> QED
    BY <2>1 DEF ConfigInv, TypeOK, Vetted, Running
<1>5. ASSUME NEW value
      PROVE  /\ value \in {"", "development", "production", "staging"}
                => [env EXCEPT !["ENV"] = value] \in Values
             /\ value \in {"", "loopback", "public"} => [env EXCEPT !["ADDR"] = value] \in Values
             /\ value \in {"", "loopback", "public"}
                => [env EXCEPT !["ADMIN_ADDR"] = value] \in Values
             /\ value \in {"", "tls", "plain", "mysql", "garbage"}
                => [env EXCEPT !["DATABASE_URL"] = value] \in Values
             /\ value \in SUBSET SMTPVars => [env EXCEPT !["SMTP"] = value] \in Values
             /\ value \in {"", "log", "smtp"} => [env EXCEPT !["MAIL_SENDER"] = value] \in Values
             /\ value \in {"", "relative", "absolute"}
                => [env EXCEPT !["PHOTOS_DIR"] = value] \in Values
             /\ value \in {"", "blank", "someone"}
                => [env EXCEPT !["OPERATOR_NAME"] = value] \in Values
             /\ value \in {"", "blank", "typo", "address"}
                => [env EXCEPT !["CONTACT_EMAIL"] = value] \in Values
             /\ value \in {"", "soon", "0s", "10s"}
                => [env EXCEPT !["SHUTDOWN_TIMEOUT"] = value] \in Values
             /\ value \in MainHost \cup {None} => [env EXCEPT !["APP_HOST"] = value] \in Values
             /\ value \in MainHost \cup {None} => [env EXCEPT !["PAGES_HOST"] = value] \in Values
  <2>1. value \in {"", "development", "production", "staging"}
           => [env EXCEPT !["ENV"] = value] \in Values
    BY <1>1, ConfigAssumption DEF Values
  <2>2. value \in {"", "loopback", "public"} => [env EXCEPT !["ADDR"] = value] \in Values
    BY <1>1, ConfigAssumption DEF Values
  <2>3. value \in {"", "loopback", "public"}
           => [env EXCEPT !["ADMIN_ADDR"] = value] \in Values
    BY <1>1, ConfigAssumption DEF Values
  <2>4. value \in {"", "tls", "plain", "mysql", "garbage"}
           => [env EXCEPT !["DATABASE_URL"] = value] \in Values
    BY <1>1, ConfigAssumption DEF Values
  <2>5. value \in SUBSET SMTPVars => [env EXCEPT !["SMTP"] = value] \in Values
    BY <1>1, ConfigAssumption DEF Values
  <2>6. value \in {"", "log", "smtp"} => [env EXCEPT !["MAIL_SENDER"] = value] \in Values
    BY <1>1, ConfigAssumption DEF Values
  <2>7. value \in {"", "relative", "absolute"}
           => [env EXCEPT !["PHOTOS_DIR"] = value] \in Values
    BY <1>1, ConfigAssumption DEF Values
  <2>8. value \in {"", "blank", "someone"}
           => [env EXCEPT !["OPERATOR_NAME"] = value] \in Values
    BY <1>1, ConfigAssumption DEF Values
  <2>9. value \in {"", "blank", "typo", "address"}
           => [env EXCEPT !["CONTACT_EMAIL"] = value] \in Values
    BY <1>1, ConfigAssumption DEF Values
  <2>10. value \in {"", "soon", "0s", "10s"}
           => [env EXCEPT !["SHUTDOWN_TIMEOUT"] = value] \in Values
    BY <1>1, ConfigAssumption DEF Values
  <2>11. value \in MainHost \cup {None} => [env EXCEPT !["APP_HOST"] = value] \in Values
    BY <1>1, ConfigAssumption DEF Values
  <2>12. value \in MainHost \cup {None} => [env EXCEPT !["PAGES_HOST"] = value] \in Values
    BY <1>1, ConfigAssumption DEF Values
  <2> QED
    BY <2>1, <2>2, <2>3, <2>4, <2>5, <2>6, <2>7, <2>8, <2>9, <2>10, <2>11, <2>12
<1>6. CASE Next /\ ~Start /\ ~Stop
  BY <1>4, <1>5, <1>6 DEF Next, Edits
<1>7. CASE UNCHANGED vars
  BY <1>7 DEF ConfigInv, TypeOK, Vetted, Running, vars
<1> QED
  BY <1>2, <1>3, <1>6, <1>7
-------------------------------------------------------------------------------
(* Requests: the invariant.                                                *)

\* Past all layers that set headers, past both checks, and answered or about to be.
Dressed == {"cop", "BodyLimit", "CurrentUser", "mux", "handler", "wrote", "unwind", "panic", "aborted"}
Checked == {"CurrentUser", "mux", "handler", "wrote", "panic", "aborted"}

\* Where a request can be depends on what hostSplit made of its host.
Placed ==
    /\ pc = "idle" <=> req = None
    /\ pc \in {"AppCSP", "PrivateCache", "cop", "BodyLimit", "CurrentUser"} => Surface = "app"
    /\ pc = "PagesCSP" => Surface = "page"
    /\ pc \in {"mux", "handler", "wrote", "panic", "aborted"} => Surface \in {"app", "page"}

\* Nothing is left of the request before.
Fresh == pc = "idle" => hdr = NoHeaders /\ read = 0 /\ did = {} /\ wire = None /\ line = 0

Personal == Surface = "app" /\ req.route # "static"

\* The policy of the surface, and that the answer varies by the cookie.
Policed(a) ==
    /\ "security" \in a.set
    /\ "appCSP" \in a.set <=> Surface = "app"
    /\ "pagesCSP" \in a.set <=> Surface = "page"
    /\ Personal => "varyCookie" \in a.set

\* Headers with which any status may leave.
Right(a) == Policed(a) /\ (Personal => a.cache \in {"private, no-store", "no-store"})

\* Answers that may leave.  An error of ServeContent has no Cache-Control left.
Sent(a) == Policed(a) /\ (Personal => ~Storable(a))

Worn ==
    /\ pc \in {"idle", "SecurityHeaders", "hostSplit", "AppCSP", "PagesCSP"} =>
          "appCSP" \notin hdr.set /\ "pagesCSP" \notin hdr.set
    /\ pc \in {"hostSplit", "AppCSP", "PagesCSP", "PrivateCache"} => "security" \in hdr.set
    /\ pc = "PrivateCache" => "appCSP" \in hdr.set /\ "pagesCSP" \notin hdr.set
    /\ pc \in Dressed /\ wire = None => Right(hdr)
    /\ wire # None => Sent(wire)

\* Nothing leaves on the way in; past a handler something has left, and the
\* recorder knows it or a panic.
Answered ==
    /\ wire # None => pc \in {"wrote", "unwind", "panic", "aborted"} /\ rec \in {wire.status, 500}
    /\ pc \in {"wrote", "unwind"} => wire # None
    /\ line # 0 => pc = "unwind" /\ line = rec

Allowed == ~(req.cross /\ IsPost(req.route))
Sized == req.route # "upload" /\ ~req.chunked => req.body <= maxFormBody

\* Both checks come before any work.
Checks ==
    req # None /\ Surface = "app" =>
        /\ pc \in Checked \cup {"BodyLimit"} => Allowed
        /\ pc \in Checked => Sized
        /\ did # {} => Allowed /\ Sized

\* Wherever a body may be read, its limit is in place.
Limited ==
    /\ cap \in {None, maxFormBody}
    /\ pc \in {"CurrentUser", "mux", "handler"} /\ Surface = "app" /\ req.route # "upload"
          /\ req.body > 0 => cap = maxFormBody
    /\ BodyBounded

SiteInv ==
    /\ ConfigInv /\ SiteTypeOK /\ Placed /\ Fresh /\ Worn /\ Answered /\ Checks /\ Limited
-------------------------------------------------------------------------------
(* Requests: what every step needs.                                        *)

Works == {"lookup", "writes", "logins48", "reads", "handler"}

LEMMA SurfaceKept == ASSUME server' = server, req' = req PROVE Surface' = Surface
BY DEF Surface

\* Arrive makes requests for one surface only.
LEMMA RequestFacts ==
    ASSUME SiteInv, req # None
    PROVE  /\ Running /\ req \in Requests
           /\ Surface \in {"app", "redirect", "notfound", "page"}
           /\ Surface = "app" => req.route \in AppRoutes \cup {"unknown"}
           /\ Surface = "page" => req.route \in PageRoutes \cup {"unknown"}
<1>1. Running /\ req \in Requests
  BY DEF SiteInv, SiteTypeOK
<1>2. server.AppHost \in HostForm /\ server.PagesHost \in HostForm
  BY <1>1, VettedServer DEF SiteInv, ConfigInv
<1>3. req.header \in HostForm
  BY <1>1 DEF Requests
<1>4. Surface \in {"app", "redirect", "notfound", "page"}
  BY <1>2, <1>3, Split DEF Surface
<1>5. PICK r \in RequestsTo(Surface) : req = WithHeader(r, req.header)
  BY DEF SiteInv, SiteTypeOK
<1>6. req.route = r.route
  BY <1>5 DEF WithHeader
<1>7. Surface = "app" => r.route \in AppRoutes \cup {"unknown"}
  BY <1>5 DEF RequestsTo
<1>8. Surface = "page" => r.route \in PageRoutes \cup {"unknown"}
  BY <1>5 DEF RequestsTo
<1> QED
  BY <1>1, <1>4, <1>6, <1>7, <1>8

LEMMA BodyFacts ==
    ASSUME SiteInv, req # None
    PROVE  req.body \in 0..3 /\ req.chunked \in BOOLEAN /\ req.cross \in BOOLEAN
<1>1. req \in Requests
  BY RequestFacts
<1> QED
  BY <1>1 DEF Requests

LEMMA AnswerIsNotNone == \A a \in Answers : a # None
BY NoneAssumption

\* The policy is in the set of headers alone.
LEMMA PolicedBySet ==
    ASSUME NEW h, Policed(h), NEW a, a.set = h.set
    PROVE  Policed(a)
BY DEF Policed

\* Headers that are right may leave under any status.
LEMMA RightIsSent ==
    ASSUME NEW h, Right(h), NEW a, a.set = h.set, a.cache = h.cache
    PROVE  Sent(a)
BY DEF Right, Sent, Policed, Storable

\* What may leave for a request may leave for it after the step.
LEMMA SentIsStable ==
    ASSUME Surface' = Surface, req' = req, wire' # None => Sent(wire')
    PROVE  (wire # None => Sent(wire))'
BY DEF Sent, Policed, Personal, Storable

\* Headers that are right for a request stay right for it.
LEMMA RightIsStable ==
    ASSUME Surface' = Surface, req' = req, Right(hdr')
    PROVE  Right(hdr)'
BY DEF Right, Policed, Personal

\* A request stays the request it is until it is done.
LEMMA SiteTyped ==
    ASSUME SiteInv, UNCHANGED vars, req' = req,
           pc' \in Layers \cup {"idle", "wrote", "unwind", "panic", "aborted"},
           hdr' \in [set : SUBSET Headers, cache : Caching],
           user' \in BOOLEAN, cap' \in 0..3 \cup {None}, read' \in 0..3, did' \subseteq Works,
           wire' \in Answers \cup {None}, rec' \in Statuses \cup {0}, line' \in Statuses \cup {0}
    PROVE  ConfigInv' /\ SiteTypeOK'
<1>1. env' = env /\ server' = server /\ edits' = edits
  BY DEF vars
<1>2. TypeOK' /\ ConfigInv'
  BY <1>1 DEF SiteInv, ConfigInv, TypeOK, Vetted, Running
<1>3. Surface' = Surface
  BY <1>1, SurfaceKept
<1>4. (req # None =>
          Running /\ req \in Requests /\ \E r \in RequestsTo(Surface) : req = WithHeader(r, req.header))'
  BY <1>1, <1>3 DEF SiteInv, SiteTypeOK, Running, RequestsTo, WithHeader
<1> QED
  BY <1>2, <1>4 DEF SiteTypeOK, Works

\* On the way in nothing leaves, and the way in is what is left to show.
LEMMA Onward ==
    ASSUME SiteInv, UNCHANGED vars, pc \in Layers, pc' \in Layers,
           UNCHANGED <<req, read, wire, rec, line>>,
           hdr' \in [set : SUBSET Headers, cache : Caching],
           user' \in BOOLEAN, cap' \in 0..3 \cup {None}, did' \subseteq Works,
           Placed', Worn', Checks', Limited'
    PROVE  SiteInv'
<1>1. /\ wire \in Answers \cup {None} /\ rec \in Statuses \cup {0} /\ line \in Statuses \cup {0}
      /\ read \in 0..3
  BY DEF SiteInv, SiteTypeOK
<1>2. ConfigInv' /\ SiteTypeOK'
  BY <1>1, SiteTyped DEF Layers
<1>3. wire = None /\ line = 0
  BY DEF SiteInv, Answered, Layers
<1>4. Fresh' /\ Answered'
  BY <1>3 DEF Fresh, Answered, Layers
<1> QED
  BY <1>2, <1>4 DEF SiteInv

\* A layer that answers turns the request back with the headers set so far.
LEMMA Refuses ==
    ASSUME SiteInv, UNCHANGED vars, NEW status \in Statuses, Answer(status),
           pc \in {"hostSplit", "cop", "BodyLimit", "CurrentUser", "mux"},
           Right(hdr), did' \subseteq Works,
           Surface = "app" /\ did' # {} => Allowed /\ Sized
    PROVE  SiteInv'
<1>1. /\ UNCHANGED <<req, hdr, user, cap, read, line>> /\ pc' = "unwind" /\ rec' = status
      /\ server' = server
  BY DEF Answer, WriteHeader, Recorded, vars
<1>2. wire = None /\ line = 0 /\ req # None
  BY DEF SiteInv, Answered, Placed
<1>3. /\ hdr \in [set : SUBSET Headers, cache : Caching] /\ user \in BOOLEAN
      /\ cap \in 0..3 \cup {None} /\ read \in 0..3
  BY DEF SiteInv, SiteTypeOK
<1>4. wire' = [status |-> status, set |-> hdr.set, cache |-> hdr.cache]
  BY <1>2 DEF Answer, WriteHeader
<1>5. wire' \in Answers /\ wire'.status = status /\ wire'.set = hdr.set /\ wire'.cache = hdr.cache
  BY <1>3, <1>4 DEF Answers
<1>6. ConfigInv' /\ SiteTypeOK'
  BY <1>1, <1>2, <1>3, <1>5, SiteTyped DEF Works
<1>7. Surface' = Surface
  BY <1>1, SurfaceKept
<1>8. Placed' /\ Fresh'
  BY <1>1, <1>2 DEF Placed, Fresh
<1>9. wire' # None /\ (wire # None => Sent(wire))'
  <2>1. Sent(wire')
    BY <1>5, RightIsSent
  <2> QED
    BY <1>1, <1>5, <1>7, <2>1, SentIsStable, AnswerIsNotNone
<1>10. Worn'
  BY <1>1, <1>9 DEF Worn, Dressed
<1>11. Answered'
  BY <1>1, <1>2, <1>5, AnswerIsNotNone DEF Answered
<1>12. Checks'
  BY <1>1, <1>7 DEF Checks, Checked, Allowed, Sized
<1>13. Limited'
  BY <1>1, <1>7 DEF SiteInv, Limited, BodyBounded
<1> QED
  BY <1>6, <1>8, <1>10, <1>11, <1>12, <1>13 DEF SiteInv
-------------------------------------------------------------------------------
(* Requests: the layers.                                                   *)

LEMMA NextLayers ==
    /\ NextLayer("SecurityHeaders") = "hostSplit"
    /\ Surface = "app" =>
          /\ NextLayer("AppCSP") = "PrivateCache" /\ NextLayer("PrivateCache") = "cop"
          /\ NextLayer("cop") = "BodyLimit" /\ NextLayer("BodyLimit") = "CurrentUser"
          /\ NextLayer("CurrentUser") = "mux"
    /\ Surface = "page" => NextLayer("PagesCSP") = "mux"
    /\ Head(RootChain) = "SecurityHeaders" /\ Head(AppChain) = "AppCSP"
    /\ Head(PagesChain) = "PagesCSP"
<1>1. After(RootChain, "SecurityHeaders") = "hostSplit"
  <2>1. /\ Len(RootChain) = 2 /\ RootChain[1] = "SecurityHeaders" /\ RootChain[2] = "hostSplit"
        /\ \A i \in 1..2 : RootChain[i] = "SecurityHeaders" => i = 1
    BY DEF RootChain
  <2>2. (CHOOSE i \in 1..Len(RootChain) : RootChain[i] = "SecurityHeaders") = 1
    BY <2>1
  <2> QED
    BY <2>1, <2>2 DEF After
<1>2. /\ Len(AppChain) = 6
      /\ AppChain[1] = "AppCSP" /\ AppChain[2] = "PrivateCache" /\ AppChain[3] = "cop"
      /\ AppChain[4] = "BodyLimit" /\ AppChain[5] = "CurrentUser" /\ AppChain[6] = "mux"
  BY DEF AppChain
<1>3. \A k \in 1..6, i \in 1..6 : AppChain[i] = AppChain[k] => i = k
  BY <1>2
<1>4. ASSUME NEW k \in 1..5 PROVE After(AppChain, AppChain[k]) = AppChain[k + 1]
  <2>1. (CHOOSE i \in 1..Len(AppChain) : AppChain[i] = AppChain[k]) = k
    BY <1>2, <1>3
  <2> QED
    BY <2>1 DEF After
<1>5. After(PagesChain, "PagesCSP") = "mux"
  <2>1. /\ Len(PagesChain) = 2 /\ PagesChain[1] = "PagesCSP" /\ PagesChain[2] = "mux"
        /\ \A i \in 1..2 : PagesChain[i] = "PagesCSP" => i = 1
    BY DEF PagesChain
  <2>2. (CHOOSE i \in 1..Len(PagesChain) : PagesChain[i] = "PagesCSP") = 1
    BY <2>1
  <2> QED
    BY <2>1, <2>2 DEF After
<1>6. /\ After(AppChain, "AppCSP") = "PrivateCache" /\ After(AppChain, "PrivateCache") = "cop"
      /\ After(AppChain, "cop") = "BodyLimit" /\ After(AppChain, "BodyLimit") = "CurrentUser"
      /\ After(AppChain, "CurrentUser") = "mux"
  BY <1>2, <1>4
<1>7. /\ Head(RootChain) = "SecurityHeaders" /\ Head(AppChain) = "AppCSP"
      /\ Head(PagesChain) = "PagesCSP"
  BY DEF RootChain, AppChain, PagesChain
<1> QED
  BY <1>1, <1>5, <1>6, <1>7 DEF NextLayer

LEMMA LayerTypes ==
    ASSUME SiteInv
    PROVE  /\ hdr \in [set : SUBSET Headers, cache : Caching] /\ user \in BOOLEAN
           /\ cap \in 0..3 \cup {None} /\ did \subseteq Works
BY DEF SiteInv, SiteTypeOK, Works

\* The layers that only set headers.
LEMMA HeaderLayers ==
    ASSUME SiteInv, UNCHANGED vars,
           SecurityHeaders \/ csp("AppCSP") \/ csp("PagesCSP") \/ PrivateCache
    PROVE  SiteInv'
<1>1. /\ UNCHANGED <<req, read, wire, rec, line, user, cap, did>> /\ server' = server
      /\ pc' = NextLayer(pc)
  BY DEF SecurityHeaders, csp, PrivateCache, Pass, vars
<1>2. /\ hdr \in [set : SUBSET Headers, cache : Caching] /\ user \in BOOLEAN
      /\ cap \in 0..3 \cup {None} /\ did \subseteq Works
  BY LayerTypes
<1>3. wire = None /\ req # None /\ pc \in Layers
  <2>1. pc \in {"SecurityHeaders", "AppCSP", "PagesCSP", "PrivateCache"}
    BY DEF SecurityHeaders, csp, PrivateCache
  <2> QED
    BY <2>1 DEF SiteInv, Answered, Placed, Layers
<1>4. Surface' = Surface
  BY <1>1, SurfaceKept
<1>5. CASE SecurityHeaders
  <2>1. pc = "SecurityHeaders" /\ pc' = "hostSplit"
    BY <1>1, <1>5, NextLayers DEF SecurityHeaders
  <2>2. /\ hdr' \in [set : SUBSET Headers, cache : Caching]
        /\ "security" \in hdr'.set
        /\ "appCSP" \in hdr'.set <=> "appCSP" \in hdr.set
        /\ "pagesCSP" \in hdr'.set <=> "pagesCSP" \in hdr.set
    BY <1>2, <1>5 DEF SecurityHeaders, Headers
  <2>3. Placed' /\ Checks' /\ Limited'
    BY <1>1, <1>3, <1>4, <2>1
    DEF SiteInv, Placed, Checks, Checked, Allowed, Sized, Limited, BodyBounded
  <2>4. Worn'
    BY <1>1, <1>3, <2>1, <2>2 DEF SiteInv, Worn, Dressed
  <2> QED
    BY <1>1, <1>2, <1>3, <2>1, <2>2, <2>3, <2>4, Onward DEF Layers
<1>6. CASE csp("AppCSP")
  <2>1. pc = "AppCSP" /\ Surface = "app" /\ pc' = "PrivateCache"
    BY <1>1, <1>6, NextLayers DEF csp, SiteInv, Placed
  <2>2. /\ hdr' \in [set : SUBSET Headers, cache : Caching]
        /\ "security" \in hdr'.set /\ "appCSP" \in hdr'.set /\ "pagesCSP" \notin hdr'.set
    BY <1>2, <1>6, <2>1 DEF csp, Headers, SiteInv, Worn
  <2>3. Placed' /\ Checks' /\ Limited'
    BY <1>1, <1>3, <1>4, <2>1
    DEF SiteInv, Placed, Checks, Checked, Allowed, Sized, Limited, BodyBounded
  <2>4. Worn'
    BY <1>1, <1>3, <2>1, <2>2 DEF Worn, Dressed
  <2> QED
    BY <1>1, <1>2, <1>3, <2>1, <2>2, <2>3, <2>4, Onward DEF Layers
<1>7. CASE csp("PagesCSP")
  <2>1. pc = "PagesCSP" /\ Surface = "page" /\ pc' = "mux"
    BY <1>1, <1>7, NextLayers DEF csp, SiteInv, Placed
  <2>2. /\ hdr' \in [set : SUBSET Headers, cache : Caching]
        /\ "security" \in hdr'.set /\ "appCSP" \notin hdr'.set /\ "pagesCSP" \in hdr'.set
    BY <1>2, <1>7, <2>1 DEF csp, Headers, SiteInv, Worn
  <2>3. Placed' /\ Checks' /\ Limited'
    BY <1>1, <1>3, <1>4, <2>1
    DEF SiteInv, Placed, Checks, Checked, Allowed, Sized, Limited, BodyBounded
  <2>4. Worn'
    BY <1>1, <1>3, <1>4, <2>1, <2>2 DEF Worn, Dressed, Right, Policed, Personal
  <2> QED
    BY <1>1, <1>2, <1>3, <2>1, <2>2, <2>3, <2>4, Onward DEF Layers
<1>8. CASE PrivateCache
  <2>1. pc = "PrivateCache" /\ Surface = "app" /\ pc' = "cop"
    BY <1>1, <1>8, NextLayers DEF PrivateCache, SiteInv, Placed
  <2>2. /\ hdr' \in [set : SUBSET Headers, cache : Caching]
        /\ "security" \in hdr'.set /\ "appCSP" \in hdr'.set /\ "pagesCSP" \notin hdr'.set
        /\ "varyCookie" \in hdr'.set /\ hdr'.cache = "private, no-store"
    BY <1>2, <1>8, <2>1 DEF PrivateCache, Headers, Caching, SiteInv, Worn
  <2>3. Placed' /\ Checks' /\ Limited'
    BY <1>1, <1>3, <1>4, <2>1
    DEF SiteInv, Placed, Checks, Checked, Allowed, Sized, Limited, BodyBounded
  <2>4. Worn'
    BY <1>1, <1>3, <1>4, <2>1, <2>2 DEF Worn, Dressed, Right, Policed, Personal
  <2> QED
    BY <1>1, <1>2, <1>3, <2>1, <2>2, <2>3, <2>4, Onward DEF Layers
<1> QED
  BY <1>5, <1>6, <1>7, <1>8

\* The split hands a request to the chain of its surface, or answers itself.
LEMMA DispatchStep ==
    ASSUME SiteInv, UNCHANGED vars, Dispatch
    PROVE  SiteInv'
<1>1. pc = "hostSplit" /\ req # None /\ wire = None /\ server' = server
  BY DEF Dispatch, SiteInv, Placed, Answered, vars
<1>2. /\ hdr \in [set : SUBSET Headers, cache : Caching] /\ user \in BOOLEAN
      /\ cap \in 0..3 \cup {None} /\ did \subseteq Works
  BY LayerTypes
<1>3. CASE Surface \in {"app", "page"}
  <2>1. UNCHANGED <<req, hdr, user, cap, read, did, wire, rec, line>>
    BY <1>3 DEF Dispatch
  <2>2. pc' = IF Surface = "app" THEN "AppCSP" ELSE "PagesCSP"
    BY <1>3, NextLayers DEF Dispatch
  <2>3. Surface' = Surface
    BY <1>1, <2>1, SurfaceKept
  <2>4. Placed' /\ Checks' /\ Limited'
    BY <1>1, <1>3, <2>1, <2>2, <2>3
    DEF SiteInv, Placed, Checks, Checked, Allowed, Sized, Limited, BodyBounded
  <2>5. Worn'
    BY <1>1, <2>1, <2>2 DEF SiteInv, Worn, Dressed
  <2> QED
    BY <1>1, <1>2, <2>1, <2>2, <2>4, <2>5, Onward DEF Layers
<1>4. CASE Surface \notin {"app", "page"}
  <2>1. PICK status \in {302, 404} : Answer(status) /\ did' = did
    BY <1>4 DEF Dispatch
  <2>2. Right(hdr)
    BY <1>1, <1>4 DEF SiteInv, Worn, Right, Policed, Personal
  <2>3. status \in Statuses
    BY DEF Statuses
  <2> QED
    BY <1>1, <1>2, <1>4, <2>1, <2>2, <2>3, Refuses
<1> QED
  BY <1>3, <1>4

\* The two checks: past each of them its condition holds.
LEMMA GateSteps ==
    ASSUME SiteInv, UNCHANGED vars, CrossOriginProtection \/ BodyLimit
    PROVE  SiteInv'
<1>1. /\ pc \in {"cop", "BodyLimit"} /\ Surface = "app" /\ req # None /\ wire = None
      /\ Right(hdr) /\ server' = server /\ did' = did
  <2>1. pc \in {"cop", "BodyLimit"} /\ did' = did
    BY DEF CrossOriginProtection, BodyLimit
  <2> QED
    BY <2>1 DEF SiteInv, Placed, Answered, Worn, Dressed, vars
<1>2. /\ hdr \in [set : SUBSET Headers, cache : Caching] /\ user \in BOOLEAN
      /\ cap \in 0..3 \cup {None} /\ did \subseteq Works
  BY LayerTypes
<1>3. Surface = "app" /\ did' # {} => Allowed /\ Sized
  BY <1>1 DEF SiteInv, Checks
<1>4. ASSUME NEW status \in {403, 413}, Answer(status) PROVE SiteInv'
  <2>1. status \in Statuses
    BY <1>4 DEF Statuses
  <2> QED
    BY <1>1, <1>2, <1>3, <1>4, <2>1, Refuses
<1>5. CASE pc = "cop" /\ Allowed /\ Pass /\ UNCHANGED <<hdr, user, cap>>
  <2>1. UNCHANGED <<req, hdr, user, cap, read, did, wire, rec, line>> /\ pc' = "BodyLimit"
    BY <1>1, <1>5, NextLayers DEF Pass
  <2>2. Surface' = Surface
    BY <1>1, <2>1, SurfaceKept
  <2>3. Placed' /\ Limited'
    BY <1>1, <1>5, <2>1, <2>2 DEF SiteInv, Placed, Limited, BodyBounded
  <2>4. Checks'
    BY <1>1, <1>3, <1>5, <2>1, <2>2 DEF Checks, Checked, Allowed, Sized
  <2>5. Worn'
    BY <1>1, <2>1, <2>2 DEF Worn, Dressed, Right, Policed, Personal
  <2> QED
    BY <1>1, <1>2, <1>5, <2>1, <2>3, <2>4, <2>5, Onward DEF Layers
<1> DEFINE small == req.route # "upload" /\ req.body > 0
           tooLarge == small /\ ~req.chunked /\ req.body > maxFormBody
<1>6. CASE /\ pc = "BodyLimit" /\ ~tooLarge /\ Pass
           /\ cap' = (IF small THEN BodyCap ELSE cap) /\ UNCHANGED <<hdr, user>>
  <2>1. UNCHANGED <<req, hdr, user, read, did, wire, rec, line>> /\ pc' = "CurrentUser"
    BY <1>1, <1>6, NextLayers DEF Pass
  <2>2. Surface' = Surface
    BY <1>1, <2>1, SurfaceKept
  <2>3. cap' = (IF small THEN maxFormBody ELSE cap) /\ cap' \in 0..3 \cup {None}
    BY <1>2, <1>6 DEF BodyCap, maxFormBody
  <2>4. Sized
    BY <1>1, <1>6, BodyFacts DEF Sized, maxFormBody
  <2>5. Placed'
    BY <1>1, <2>1, <2>2 DEF SiteInv, Placed
  <2>6. Limited'
    BY <1>1, <2>1, <2>2, <2>3 DEF SiteInv, Limited, BodyBounded
  <2>7. Allowed
    BY <1>1, <1>6 DEF SiteInv, Checks
  <2>8. Checks'
    BY <1>1, <2>1, <2>2, <2>4, <2>7 DEF Checks, Checked, Allowed, Sized
  <2>9. Worn'
    BY <1>1, <2>1, <2>2 DEF Worn, Dressed, Right, Policed, Personal
  <2> QED
    BY <1>1, <1>2, <1>6, <2>1, <2>3, <2>5, <2>6, <2>8, <2>9, Onward DEF Layers
<1>7. CASE CrossOriginProtection
  BY <1>4, <1>5, <1>7 DEF CrossOriginProtection, Allowed
<1>8. CASE BodyLimit
  BY <1>4, <1>6, <1>8 DEF BodyLimit
<1> QED
  BY <1>7, <1>8

\* The account is looked up behind both checks.
LEMMA CurrentUserStep ==
    ASSUME SiteInv, UNCHANGED vars, CurrentUser
    PROVE  SiteInv'
<1>1. /\ pc = "CurrentUser" /\ Surface = "app" /\ req # None /\ wire = None
      /\ Right(hdr) /\ Allowed /\ Sized /\ server' = server
  BY DEF CurrentUser, SiteInv, Placed, Answered, Worn, Dressed, Checks, Checked, vars
<1>2. /\ hdr \in [set : SUBSET Headers, cache : Caching] /\ user \in BOOLEAN
      /\ cap \in 0..3 \cup {None} /\ did' \subseteq Works
  <2>1. did' \subseteq did \cup {"lookup"}
    BY DEF CurrentUser
  <2> QED
    BY <2>1, LayerTypes DEF Works
<1>3. CASE Answer(500)
  BY <1>1, <1>2, <1>3, Refuses DEF Statuses
<1>4. CASE Pass /\ user' = (req.cookie = "valid") /\ UNCHANGED <<hdr, cap>>
  <2>1. UNCHANGED <<req, hdr, cap, read, wire, rec, line>> /\ pc' = "mux" /\ user' \in BOOLEAN
    BY <1>1, <1>4, NextLayers DEF Pass
  <2>2. Surface' = Surface
    BY <1>1, <2>1, SurfaceKept
  <2>3. Placed'
    BY <1>1, <2>1, <2>2 DEF SiteInv, Placed
  <2>4. Limited'
    BY <1>1, <2>1, <2>2 DEF SiteInv, Limited, BodyBounded
  <2>5. Checks'
    BY <1>1, <2>1, <2>2 DEF Checks, Checked, Allowed, Sized
  <2>6. Worn'
    BY <1>1, <2>1, <2>2 DEF Worn, Dressed, Right, Policed, Personal
  <2> QED
    BY <1>1, <1>2, <2>1, <2>3, <2>4, <2>5, <2>6, Onward DEF Layers
<1> QED
  BY <1>3, <1>4 DEF CurrentUser

\* Which limiters are asked, and how many of them had a token.
LEMMA MuxStep ==
    ASSUME SiteInv, UNCHANGED vars, mux
    PROVE  SiteInv'
<1>1. pc = "mux" /\ req # None /\ wire = None /\ Right(hdr) /\ server' = server
      /\ Surface \in {"app", "page"}
  BY DEF mux, SiteInv, Placed, Answered, Worn, Dressed, vars
<1>2. /\ hdr \in [set : SUBSET Headers, cache : Caching] /\ user \in BOOLEAN
      /\ cap \in 0..3 \cup {None} /\ did \subseteq Works
  BY LayerTypes
<1>3. Surface = "app" => Allowed /\ Sized
  BY <1>1 DEF SiteInv, Checks, Checked
<1>4. /\ Len(Limiters) \in 0..2 /\ \A i \in 1..Len(Limiters) : Limiters[i] \in Works
  <2>1. CASE Surface = "app" /\ req.route = "login"
    <3>1. Limiters = <<"writes", "logins48">>
      BY <2>1 DEF Limiters
    <3> QED
      BY <3>1 DEF Works
  <2>2. CASE Surface = "app" /\ req.route \in {"form", "upload"}
    <3>1. Limiters = <<"writes">>
      BY <2>2 DEF Limiters
    <3> QED
      BY <3>1 DEF Works
  <2>3. CASE Surface = "page" /\ req.route \in {"og", "photo"}
    <3>1. Limiters = <<"reads">>
      BY <2>3 DEF Limiters
    <3> QED
      BY <3>1 DEF Works
  <2>4. CASE /\ ~(Surface = "app" /\ req.route = "login")
             /\ ~(Surface = "app" /\ req.route \in {"form", "upload"})
             /\ ~(Surface = "page" /\ req.route \in {"og", "photo"})
    <3>1. Limiters = <<>>
      BY <2>4 DEF Limiters
    <3> QED
      BY <3>1
  <2> QED
    BY <2>1, <2>2, <2>3, <2>4
<1>5. did' \subseteq Works
  <2>1. \A n \in 1..Len(Limiters) : {Limiters[i] : i \in 1..(n - 1)} \subseteq Works
    BY <1>4
  <2> QED
    BY <1>2, <1>4, <2>1 DEF mux
<1>6. ASSUME NEW status \in {301, 307, 400, 404, 405, 429}, Answer(status) PROVE SiteInv'
  <2>1. status \in Statuses
    BY <1>6 DEF Statuses
  <2> QED
    BY <1>1, <1>3, <1>5, <1>6, <2>1, Refuses
<1>7. CASE pc' = "handler" /\ UNCHANGED <<req, hdr, user, cap, read, wire, rec, line>>
  <2>1. Surface' = Surface
    BY <1>1, <1>7, SurfaceKept
  <2>2. Placed'
    BY <1>1, <1>7, <2>1 DEF SiteInv, Placed
  <2>3. Limited'
    BY <1>1, <1>7, <2>1 DEF SiteInv, Limited, BodyBounded
  <2>4. Checks'
    BY <1>1, <1>3, <1>7, <2>1 DEF Checks, Checked, Allowed, Sized
  <2>5. Worn'
    BY <1>1, <1>7, <2>1 DEF Worn, Dressed, Right, Policed, Personal
  <2> QED
    BY <1>1, <1>2, <1>5, <1>7, <2>2, <2>3, <2>4, <2>5, Onward DEF Layers
<1> QED
  BY <1>6, <1>7 DEF mux
-------------------------------------------------------------------------------
(* Requests: the handlers, and the way back.                               *)

\* A handler begins an answer that may leave, having read no more than its route
\* allows.
LEMMA Writes ==
    ASSUME SiteInv, UNCHANGED vars, NEW status \in Statuses,
           NEW h \in [set : SUBSET Headers, cache : Caching],
           Sent([status |-> status, set |-> h.set, cache |-> h.cache]),
           HandlerAnswers(status, h), read' \in 0..3,
           read' <= (IF req.route = "upload" THEN maxPhotoBody ELSE maxFormBody)
    PROVE  SiteInv'
<1>1. /\ pc = "handler" /\ pc' = "wrote" /\ hdr' = h /\ rec' = status /\ server' = server
      /\ UNCHANGED <<req, user, cap, line>> /\ did' = did \cup {"handler"}
  BY DEF HandlerAnswers, WriteHeader, Recorded, vars
<1>2. /\ req # None /\ wire = None /\ line = 0 /\ Surface \in {"app", "page"}
      /\ Surface = "app" => Allowed /\ Sized
  BY <1>1 DEF SiteInv, Placed, Answered, Checks, Checked
<1>3. /\ user \in BOOLEAN /\ cap \in 0..3 \cup {None} /\ did' \subseteq Works
  BY <1>1, LayerTypes DEF Works
<1>4. wire' = [status |-> status, set |-> h.set, cache |-> h.cache]
  BY <1>2 DEF HandlerAnswers, WriteHeader
<1>5. wire' \in Answers /\ wire'.status = status /\ Sent(wire')
  BY <1>4 DEF Answers
<1>6. ConfigInv' /\ SiteTypeOK'
  BY <1>1, <1>2, <1>3, <1>5, SiteTyped
<1>7. Surface' = Surface
  BY <1>1, SurfaceKept
<1>8. Placed' /\ Fresh'
  BY <1>1, <1>2, <1>7 DEF Placed, Fresh
<1>9. wire' # None /\ (wire # None => Sent(wire))'
  BY <1>1, <1>5, <1>7, SentIsStable, AnswerIsNotNone
<1>10. Worn'
  BY <1>1, <1>9 DEF Worn, Dressed
<1>11. Answered'
  BY <1>1, <1>2, <1>5, <1>9 DEF Answered
<1>12. Checks'
  BY <1>1, <1>2, <1>7 DEF Checks, Checked, Allowed, Sized
<1>13. Limited'
  BY <1>1, <1>7 DEF SiteInv, Limited, BodyBounded
<1> QED
  BY <1>6, <1>8, <1>10, <1>11, <1>12, <1>13 DEF SiteInv

\* What a route sets over the layers is right for it: only what is the same for
\* everyone is given to shared caches.
LEMMA OwnCaching ==
    ASSUME SiteInv, req # None, Right(hdr), hdr \in [set : SUBSET Headers, cache : Caching],
           NEW h \in OwnHeaders
    PROVE  h \in [set : SUBSET Headers, cache : Caching] /\ Right(h)
<1>1. PICK c \in CachingOf(req.route) : h = [hdr EXCEPT !.cache = c]
  BY DEF OwnHeaders
<1>2. c \in Caching
  BY <1>1 DEF CachingOf
<1>3. h \in [set : SUBSET Headers, cache : Caching] /\ h.set = hdr.set /\ h.cache = c
  BY <1>1, <1>2
<1>4. Personal => req.route \in AppRoutes \cup {"unknown"}
  BY RequestFacts DEF Personal
<1>5. Personal => c = "no-store"
  BY <1>1, <1>4 DEF Personal, CachingOf, AppRoutes
<1> QED
  BY <1>3, <1>5 DEF Right, Policed

LEMMA HandlerStep ==
    ASSUME SiteInv, UNCHANGED vars, Handler
    PROVE  SiteInv'
<1>1. pc = "handler"
  BY DEF Handler, handleStatic, handleStylePreviewCSS, handleStyleCSS, handleHome, handlePage,
         handleAppPhoto, handlePagePhoto, handleOGImage, handleForm, handleButton,
         handlePhotoUpload
<1>2. /\ req # None /\ wire = None /\ Surface \in {"app", "page"}
      /\ read \in 0..3 /\ cap \in {None, maxFormBody}
      /\ read <= (IF req.route = "upload" THEN maxPhotoBody ELSE maxFormBody)
      /\ Surface = "app" /\ req.route # "upload" /\ req.body > 0 => cap = maxFormBody
  BY <1>1 DEF SiteInv, SiteTypeOK, Placed, Answered, Limited, BodyBounded
<1>3. hdr \in [set : SUBSET Headers, cache : Caching] /\ Right(hdr)
  BY <1>1, <1>2, LayerTypes DEF SiteInv, Worn, Dressed
<1>4. req.body \in 0..3
  BY <1>2, BodyFacts
<1>5. Surface = "page" => req.route \in PageRoutes \cup {"unknown"}
  BY <1>2, RequestFacts
<1>6. ASSUME NEW status \in Statuses, NEW h \in [set : SUBSET Headers, cache : Caching], Right(h),
             HandlerAnswers(status, h), read' \in 0..3,
             read' <= (IF req.route = "upload" THEN maxPhotoBody ELSE maxFormBody)
      PROVE  SiteInv'
  <2> DEFINE a == [status |-> status, set |-> h.set, cache |-> h.cache]
  <2>1. a.set = h.set /\ a.cache = h.cache
    OBVIOUS
  <2>2. a = [status |-> status, set |-> h.set, cache |-> h.cache]
    OBVIOUS
  <2> HIDE DEF a
  <2>3. Sent(a)
    BY <1>6, <2>1, RightIsSent
  <2> QED
    BY <1>6, <2>2, <2>3, Writes
<1>7. ASSUME NEW status \in Statuses, HandlerAnswers(status, hdr), read' = read PROVE SiteInv'
  BY <1>2, <1>3, <1>6, <1>7
<1>8. ASSUME NEW status \in Statuses, NEW h \in OwnHeaders, HandlerAnswers(status, h),
             read' = read
      PROVE  SiteInv'
  <2>1. h \in [set : SUBSET Headers, cache : Caching] /\ Right(h)
    BY <1>2, <1>3, OwnCaching
  <2> QED
    BY <1>2, <1>6, <1>8, <2>1
<1>9. ASSUME NEW h \in [set : SUBSET Headers, cache : Caching], Right(h), servePhotoFile(h),
             read' = read
      PROVE  SiteInv'
  <2>1. ASSUME NEW status \in Statuses, HandlerAnswers(status, h) PROVE SiteInv'
    BY <1>2, <1>6, <1>9, <2>1
  <2>2. ASSUME NEW status \in {416, 500}, HandlerAnswers(status, [h EXCEPT !.cache = "unset"])
        PROVE  SiteInv'
    <3> DEFINE g == [h EXCEPT !.cache = "unset"]
               a == [status |-> status, set |-> g.set, cache |-> g.cache]
    <3>1. g \in [set : SUBSET Headers, cache : Caching] /\ g.set = h.set /\ g.cache = "unset"
      BY <1>9 DEF Caching
    <3>2. HandlerAnswers(status, g)
      BY <2>2
    <3>3. a.set = g.set /\ a.cache = g.cache /\ a.status = status
      OBVIOUS
    <3>4. a = [status |-> status, set |-> g.set, cache |-> g.cache]
      OBVIOUS
    <3> HIDE DEF g, a
    <3>5. Policed(a)
      <4>1. Policed(h)
        BY <1>9 DEF Right
      <4>2. a.set = h.set
        BY <3>1, <3>3
      <4> QED
        BY <4>1, <4>2, PolicedBySet
    <3>6. ~Storable(a)
      BY <3>1, <3>3 DEF Storable
    <3>7. status \in Statuses
      BY DEF Statuses
    <3> QED
      BY <1>2, <1>9, <3>1, <3>2, <3>4, <3>5, <3>6, <3>7, Writes DEF Sent
  <2> QED
    BY <1>9, <2>1, <2>2 DEF servePhotoFile, ServeContent, Statuses
<1>10. CASE handleStatic \/ handleStylePreviewCSS \/ handleStyleCSS
  BY <1>7, <1>8, <1>10 DEF handleStatic, handleStylePreviewCSS, handleStyleCSS, Statuses
<1>11. CASE handleHome \/ handlePage
  BY <1>7, <1>11 DEF handleHome, handlePage, Statuses
<1>12. CASE handleAppPhoto
  BY <1>3, <1>7, <1>9, <1>12 DEF handleAppPhoto, Statuses
<1>13. CASE handlePagePhoto
  <2>1. ASSUME NEW h \in OwnHeaders, servePhotoFile(h), read' = read PROVE SiteInv'
    <3>1. h \in [set : SUBSET Headers, cache : Caching] /\ Right(h)
      BY <1>2, <1>3, OwnCaching
    <3> QED
      BY <1>9, <2>1, <3>1
  <2> QED
    BY <1>7, <1>13, <2>1 DEF handlePagePhoto, Statuses
<1>14. CASE handleOGImage
  BY <1>7, <1>8, <1>14 DEF handleOGImage, Statuses
<1>15. CASE handleForm
  <2>1. Surface = "app" /\ req.route # "upload"
    BY <1>2, <1>5, <1>15 DEF handleForm, PageRoutes
  <2>2. read' \in 0..3 /\ read' <= maxFormBody
    <3>1. None \notin Nat
      BY NoneIsNoPort
    <3>2. CASE Fits
      BY <1>2, <1>4, <1>15, <2>1, <3>1, <3>2 DEF handleForm, ReadBody, Fits, maxFormBody
    <3>3. CASE ~Fits
      BY <1>2, <1>4, <1>15, <2>1, <3>1, <3>3 DEF handleForm, ReadBody, Fits, maxFormBody
    <3> QED
      BY <3>2, <3>3
  <2>3. PICK status \in Statuses : HandlerAnswers(status, hdr)
    BY <1>15 DEF handleForm, Statuses
  <2> QED
    BY <1>3, <1>6, <2>1, <2>2, <2>3
<1>16. CASE handleButton
  BY <1>7, <1>16 DEF handleButton, Statuses
<1>17. CASE handlePhotoUpload
  <2>1. req.route = "upload"
    BY <1>17 DEF handlePhotoUpload
  <2>2. read' = read \/ read' = IF req.body <= maxPhotoBody THEN req.body ELSE maxPhotoBody
    BY <1>17 DEF handlePhotoUpload
  <2>3. read' \in 0..3 /\ read' <= maxPhotoBody
    BY <1>2, <1>4, <2>1, <2>2 DEF maxPhotoBody
  <2>4. PICK status \in Statuses : HandlerAnswers(status, hdr)
    BY <1>17 DEF handlePhotoUpload, Statuses
  <2> QED
    BY <1>3, <1>6, <2>1, <2>3, <2>4
<1> QED
  BY <1>10, <1>11, <1>12, <1>13, <1>14, <1>15, <1>16, <1>17 DEF Handler

\* The way out: the handler returns or panics, Recover answers, and the log is written.
LEMMA WayBack ==
    ASSUME SiteInv, UNCHANGED vars,
           Return \/ Panic(TRUE) \/ Panic(FALSE) \/ Recover \/ RequestLogger
    PROVE  SiteInv'
<1>1. /\ pc \in {"handler", "wrote", "panic", "unwind"}
      /\ UNCHANGED <<req, user, cap, read, did>> /\ server' = server
      /\ hdr' = hdr \/ (pc = "handler" /\ hdr' \in OwnHeaders)
  BY DEF Return, Panic, Recover, RequestLogger, vars
<1>2. /\ req # None /\ (wire = None => Right(hdr))
      /\ pc = "handler" => wire = None
      /\ pc # "unwind" => line = 0 /\ Surface \in {"app", "page"}
                          /\ (Surface = "app" => Allowed /\ Sized)
  BY <1>1 DEF SiteInv, Placed, Answered, Worn, Dressed, Checks, Checked
<1>3. /\ hdr \in [set : SUBSET Headers, cache : Caching] /\ user \in BOOLEAN
      /\ cap \in 0..3 \cup {None} /\ did \subseteq Works
  BY LayerTypes
<1>4. hdr' \in [set : SUBSET Headers, cache : Caching] /\ (wire = None => Right(hdr'))
  BY <1>1, <1>2, <1>3, OwnCaching
<1>5. /\ read \in 0..3 /\ wire \in Answers \cup {None} /\ rec \in Statuses \cup {0}
      /\ line \in Statuses \cup {0} /\ (wire # None => Sent(wire))
  BY DEF SiteInv, SiteTypeOK, Worn
<1>6. Surface' = Surface
  BY <1>1, SurfaceKept
<1>7. Limited'
  <2>1. pc' \in {"wrote", "unwind", "panic", "aborted"}
    BY DEF Return, Panic, Recover, RequestLogger
  <2> QED
    BY <1>1, <1>6, <2>1 DEF SiteInv, Limited, BodyBounded
<1>8. ASSUME pc' \in {"unwind", "panic", "aborted"}, wire' = wire, rec' = rec,
             line' = line \/ (line' = (IF rec = 0 THEN 200 ELSE rec) /\ pc' = "unwind"),
             pc = "unwind" => pc' = "unwind",
             pc' = "unwind" => wire # None,
             pc' # "unwind" => pc \in {"handler", "wrote"}
      PROVE  SiteInv'
  <2>1. line' \in Statuses \cup {0}
    BY <1>5, <1>8 DEF Statuses
  <2>2. ConfigInv' /\ SiteTypeOK'
    BY <1>1, <1>3, <1>4, <1>5, <1>8, <2>1, SiteTyped
  <2>3. Placed' /\ Fresh'
    BY <1>1, <1>2, <1>6, <1>8 DEF Placed, Fresh
  <2>4. Worn'
    <3>1. (wire # None => Sent(wire))'
      <4>1. wire' # None => Sent(wire')
        BY <1>5, <1>8
      <4> QED
        BY <1>1, <1>6, <4>1, SentIsStable
    <3>2. ASSUME wire' = None PROVE Right(hdr)'
      <4>1. Right(hdr')
        BY <1>4, <1>8, <3>2
      <4> QED
        BY <1>1, <1>6, <4>1, RightIsStable
    <3>3. pc' \notin {"idle", "SecurityHeaders", "hostSplit", "AppCSP", "PagesCSP",
                     "PrivateCache"}
      BY <1>8
    <3> QED
      BY <3>1, <3>2, <3>3 DEF Worn
  <2>5. wire # None => rec \in {wire.status, 500} /\ rec # 0
    BY <1>5 DEF SiteInv, Answered, Answers, Statuses
  <2>6. Answered'
    BY <1>1, <1>8, <2>5 DEF SiteInv, Answered
  <2>7. Checks'
    BY <1>1, <1>2, <1>6, <1>8 DEF SiteInv, Checks, Checked, Allowed, Sized
  <2> QED
    BY <1>7, <2>2, <2>3, <2>4, <2>6, <2>7 DEF SiteInv
<1>9. CASE Return
  BY <1>8, <1>9 DEF SiteInv, Answered, Return
<1>10. CASE Panic(TRUE) \/ Panic(FALSE)
  <2>1. /\ pc \in {"handler", "wrote"} /\ pc' \in {"panic", "aborted"}
        /\ wire' = wire /\ rec' = rec /\ line' = line
    BY <1>10 DEF Panic
  <2> QED
    BY <1>8, <2>1
<1>11. CASE RequestLogger
  BY <1>8, <1>11 DEF SiteInv, Answered, RequestLogger
<1>12. CASE Recover
  <2>1. pc = "panic" /\ pc' = "unwind" /\ rec' = 500 /\ line' = line
    BY <1>12 DEF Recover, WriteHeader, Recorded
  <2>2. wire' = IF wire = None
                THEN [status |-> 500, set |-> hdr.set, cache |-> hdr.cache] ELSE wire
    BY <1>12 DEF Recover, WriteHeader
  <2>3. wire' \in Answers
    BY <1>3, <1>5, <2>2 DEF Answers, Statuses
  <2>4. wire' # None /\ Sent(wire') /\ (wire = None => wire'.status = 500)
    <3>1. CASE wire = None
      <4>1. wire'.status = 500 /\ wire'.set = hdr.set /\ wire'.cache = hdr.cache
        BY <2>2, <3>1
      <4>2. Sent(wire')
        BY <1>2, <3>1, <4>1, RightIsSent
      <4> QED
        BY <2>3, <4>1, <4>2, AnswerIsNotNone
    <3>2. CASE wire # None
      BY <1>5, <2>2, <3>2
    <3> QED
      BY <3>1, <3>2
  <2>5. ConfigInv' /\ SiteTypeOK'
    BY <1>1, <1>3, <1>4, <1>5, <2>1, <2>3, SiteTyped DEF Statuses
  <2>6. Placed' /\ Fresh'
    BY <1>1, <1>2, <2>1 DEF Placed, Fresh
  <2>7. Worn'
    <3>1. (wire # None => Sent(wire))'
      BY <1>1, <1>6, <2>4, SentIsStable
    <3> QED
      BY <2>1, <2>4, <3>1 DEF Worn, Dressed
  <2>8. Answered'
    BY <1>1, <1>2, <2>1, <2>4 DEF Answered
  <2>9. Checks'
    BY <1>1, <1>2, <1>6, <2>1 DEF Checks, Checked, Allowed, Sized
  <2> QED
    BY <1>7, <2>5, <2>6, <2>7, <2>8, <2>9 DEF SiteInv
<1> QED
  BY <1>9, <1>10, <1>11, <1>12

\* The host of a request decides its surface, and with it what the request can be.
LEMMA ArriveStep ==
    ASSUME SiteInv, UNCHANGED vars, Arrive
    PROVE  SiteInv'
<1>1. /\ pc = "idle" /\ Running /\ server' = server /\ pc' = "SecurityHeaders"
      /\ UNCHANGED <<hdr, user, cap, read, did, wire, rec, line>>
  BY NextLayers DEF Arrive, Running, vars
<1>2. hdr = NoHeaders /\ read = 0 /\ did = {} /\ wire = None /\ line = 0
  BY <1>1 DEF SiteInv, Fresh
<1>3. PICK header \in MainHost \cup {HostHeader(PageBaseURL(server, h)) : h \in Handles} :
           \E r \in RequestsTo(hostSplit(server, header).to) : req' = WithHeader(r, header)
  BY DEF Arrive
<1>4. PICK r \in RequestsTo(hostSplit(server, header).to) : req' = WithHeader(r, header)
  BY <1>3
<1>5. header \in HostForm
  <2>1. \A h \in Handles : HostHeader(PageBaseURL(server, h)) \in HostForm
    BY <1>1, VettedServer, PageHost, Header DEF SiteInv, ConfigInv, PageBaseURL
  <2> QED
    BY <2>1, ConfigAssumption, HostAssumption
<1>6. /\ r.route \in AppRoutes \cup PageRoutes \cup {"unknown"}
      /\ r.cookie \in {"none", "valid", "stale"} /\ r.cross \in BOOLEAN
      /\ r.body \in 0..3 /\ r.chunked \in BOOLEAN
  <2>1. CASE hostSplit(server, header).to = "app"
    BY <1>4, <2>1 DEF RequestsTo
  <2>2. CASE hostSplit(server, header).to # "app"
    <3>1. /\ r.cookie \in {"none"} /\ r.cross \in {FALSE} /\ r.body \in {0}
          /\ r.chunked \in {FALSE}
      BY <1>4, <2>2 DEF RequestsTo
    <3>2. r.route \in PageRoutes \cup {"unknown"}
      BY <1>4, <2>2 DEF RequestsTo
    <3>3. r.cross \in BOOLEAN /\ r.chunked \in BOOLEAN
      BY <3>1
    <3>4. r.body \in 0..3 /\ r.cookie \in {"none", "valid", "stale"}
      BY <3>1
    <3> QED
      BY <3>2, <3>3, <3>4
  <2> QED
    BY <2>1, <2>2
<1>7. req' \in Requests
  <2> DEFINE Routes == AppRoutes \cup PageRoutes \cup {"unknown"}
             Cookies == {"none", "valid", "stale"}
             Bodies == 0..3
  <2>1. /\ r.route \in Routes /\ r.cookie \in Cookies /\ r.body \in Bodies
        /\ Requests = [header : HostForm, route : Routes, cookie : Cookies, cross : BOOLEAN,
                        body : Bodies, chunked : BOOLEAN]
    BY <1>6 DEF Requests
  <2> HIDE DEF Routes, Cookies, Bodies
  <2> QED
    BY <1>4, <1>5, <1>6, <2>1 DEF WithHeader
<1>8. req' # None
  BY <1>7, NoneAssumption
<1>9. req'.header = header
  BY <1>4 DEF WithHeader
<1>10. Surface' = hostSplit(server, header).to
  BY <1>1, <1>9 DEF Surface
<1>11. env' = env /\ edits' = edits
  BY DEF vars
<1>12. TypeOK' /\ ConfigInv'
  BY <1>1, <1>11 DEF SiteInv, ConfigInv, TypeOK, Vetted, Running
<1>13. \E q \in RequestsTo(Surface)' : req' = WithHeader(q, req'.header)
  BY <1>4, <1>9, <1>10 DEF RequestsTo
<1>14. SiteTypeOK'
  <2>1. Running' /\ pc' \in Layers
    BY <1>1 DEF Running, Layers
  <2> QED
    BY <1>1, <1>7, <1>12, <1>13, <2>1 DEF SiteInv, SiteTypeOK, WithHeader
<1>15. Placed' /\ Fresh'
  BY <1>1, <1>8 DEF Placed, Fresh
<1>16. Worn' /\ Answered'
  BY <1>1, <1>2 DEF Worn, Dressed, Answered, NoHeaders
<1>17. Checks'
  BY <1>1, <1>2 DEF Checks, Checked
<1>18. Limited'
  BY <1>1, <1>2 DEF SiteInv, Limited, BodyBounded, maxPhotoBody, maxFormBody
<1> QED
  BY <1>12, <1>14, <1>15, <1>16, <1>17, <1>18 DEF SiteInv

LEMMA DoneStep ==
    ASSUME SiteInv, UNCHANGED vars, Done
    PROVE  SiteInv'
<1>1. /\ req' = None /\ pc' = "idle" /\ hdr' = NoHeaders /\ user' = FALSE /\ cap' = None
      /\ read' = 0 /\ did' = {} /\ wire' = None /\ rec' = 0 /\ line' = 0
  BY DEF Done
<1>2. env' = env /\ edits' = edits /\ server' = server
  BY DEF vars
<1>3. TypeOK' /\ ConfigInv'
  BY <1>2 DEF SiteInv, ConfigInv, TypeOK, Vetted, Running
<1>4. SiteTypeOK'
  <2>1. NoHeaders \in [set : SUBSET Headers, cache : Caching]
    BY DEF NoHeaders, Caching
  <2>2. user' \in BOOLEAN
    BY <1>1
  <2>3. /\ pc' \in Layers \cup {"idle", "wrote", "unwind", "panic", "aborted"}
        /\ cap' \in 0..3 \cup {None} /\ read' \in 0..3
        /\ did' \subseteq {"lookup", "writes", "logins48", "reads", "handler"}
        /\ wire' \in Answers \cup {None}
        /\ rec' \in Statuses \cup {0} /\ line' \in Statuses \cup {0}
    BY <1>1
  <2> QED
    BY <1>1, <1>3, <2>1, <2>2, <2>3 DEF SiteTypeOK
<1>5. Placed' /\ Fresh' /\ Worn' /\ Answered'
  BY <1>1 DEF Placed, Fresh, Worn, Dressed, Answered, NoHeaders
<1>6. Checks' /\ Limited'
  BY <1>1 DEF Checks, Limited, BodyBounded
<1> QED
  BY <1>3, <1>4, <1>5, <1>6 DEF SiteInv

\* The environment and the process change between requests only.
LEMMA OperatorStep ==
    ASSUME SiteInv, req = None, [Next]_vars, UNCHANGED reqVars
    PROVE  SiteInv'
<1>1. UNCHANGED <<req, pc, hdr, user, cap, read, did, wire, rec, line>>
  BY DEF reqVars
<1>2. ConfigInv' /\ TypeOK'
  BY NextConfig DEF SiteInv, ConfigInv
<1>3. pc = "idle" /\ hdr = NoHeaders /\ read = 0 /\ did = {} /\ wire = None /\ line = 0
  BY DEF SiteInv, Placed, Fresh
<1>4. SiteTypeOK'
  BY <1>1, <1>2 DEF SiteInv, SiteTypeOK
<1>5. Placed' /\ Fresh' /\ Worn' /\ Answered'
  BY <1>1, <1>3 DEF Placed, Fresh, Worn, Dressed, Answered, NoHeaders
<1>6. Checks' /\ Limited'
  BY <1>1, <1>3 DEF SiteInv, Checks, Limited, BodyBounded
<1> QED
  BY <1>2, <1>4, <1>5, <1>6 DEF SiteInv

LEMMA SiteStutter ==
    ASSUME SiteInv, UNCHANGED siteVars
    PROVE  SiteInv'
<1>1. /\ UNCHANGED <<req, pc, hdr, user, cap, read, did, wire, rec, line>>
      /\ UNCHANGED <<env, server, edits>>
  BY DEF siteVars, reqVars, vars
<1>2. Surface' = Surface
  BY <1>1, SurfaceKept
<1>3. UNCHANGED vars
  BY <1>1 DEF vars
<1>4. ConfigInv' /\ SiteTypeOK'
  BY <1>1, <1>3, SiteTyped DEF SiteInv, SiteTypeOK, Works
<1>5. Placed' /\ Fresh' /\ Answered'
  BY <1>1, <1>2 DEF SiteInv, Placed, Fresh, Answered
<1>6. Worn'
  <2>1. (wire # None => Sent(wire))'
    BY <1>1, <1>2, SentIsStable DEF SiteInv, Worn
  <2> QED
    BY <1>1, <1>2, <2>1 DEF SiteInv, Worn, Right, Policed, Personal
<1>7. Checks' /\ Limited'
  BY <1>1, <1>2 DEF SiteInv, Checks, Allowed, Sized, Limited, BodyBounded
<1> QED
  BY <1>4, <1>5, <1>6, <1>7 DEF SiteInv
-------------------------------------------------------------------------------
(* The results.                                                            *)

LEMMA InitSite == SiteInit => SiteInv
<1> SUFFICES ASSUME SiteInit PROVE SiteInv
  OBVIOUS
<1>1. ConfigInv /\ TypeOK
  BY InitConfig DEF SiteInit, ConfigInv
<1>2. SiteTypeOK
  <2>1. NoHeaders \in [set : SUBSET Headers, cache : Caching]
    BY DEF NoHeaders, Caching
  <2>2. user \in BOOLEAN
    BY DEF SiteInit
  <2>3. /\ pc \in Layers \cup {"idle", "wrote", "unwind", "panic", "aborted"}
        /\ cap \in 0..3 \cup {None} /\ read \in 0..3
        /\ did \subseteq {"lookup", "writes", "logins48", "reads", "handler"}
        /\ wire \in Answers \cup {None}
        /\ rec \in Statuses \cup {0} /\ line \in Statuses \cup {0}
    BY DEF SiteInit
  <2> QED
    BY <1>1, <2>1, <2>2, <2>3 DEF SiteInit, SiteTypeOK
<1>3. Placed /\ Fresh /\ Worn /\ Answered
  BY DEF SiteInit, Placed, Fresh, Worn, Dressed, Answered, NoHeaders
<1>4. Checks /\ Limited
  BY DEF SiteInit, Checks, Limited, BodyBounded
<1> QED
  BY <1>1, <1>2, <1>3, <1>4 DEF SiteInv

LEMMA NextSite == SiteInv /\ [SiteNext]_siteVars => SiteInv'
<1> SUFFICES ASSUME SiteInv, [SiteNext]_siteVars PROVE SiteInv'
  OBVIOUS
<1>1. ASSUME UNCHANGED vars, Layer PROVE SiteInv'
  BY <1>1, HeaderLayers, DispatchStep, GateSteps, CurrentUserStep, MuxStep DEF Layer
<1>2. ASSUME UNCHANGED vars, Request PROVE SiteInv'
  BY <1>1, <1>2, ArriveStep, HandlerStep, WayBack, DoneStep DEF Request
<1>3. ASSUME req = None, Next, UNCHANGED reqVars PROVE SiteInv'
  BY <1>3, OperatorStep
<1>4. CASE UNCHANGED siteVars
  BY <1>4, SiteStutter
<1> QED
  BY <1>2, <1>3, <1>4 DEF SiteNext

LEMMA SiteHolds == SiteSpec => []SiteInv
<1> QED
  BY InitSite, NextSite, PTL DEF SiteSpec

\* Config.Load and Validate: a process in production runs on nothing that is there for
\* development, and no environment starts both in production and out of it.
THEOREM ModesNeverMix == SiteSpec => []ModesApart
<1>1. SiteInv => ModesApart
  BY VettedModes DEF SiteInv, ConfigInv, TypeOK, ModesApart
<1> QED
  BY <1>1, SiteHolds, PTL

\* hostSplit, BaseURL and PageBaseURL: links and pages lead where they say, whatever
\* hosts, ports and spellings Validate let through.
THEOREM HostsLeadWhereTheySay == SiteSpec => []HostsLead
<1>1. SiteInv => HostsLead
  BY VettedHosts DEF SiteInv, ConfigInv
<1> QED
  BY <1>1, SiteHolds, PTL

\* SecurityHeaders, AppCSP, PagesCSP and PrivateCache: every answer, errors of any
\* layer and recovered panics included, leaves with the policy of its surface, and what
\* was made for an account is nothing a shared cache may keep, also where a handler or
\* net/http replaces PrivateCache's Cache-Control or drops it.
THEOREM HeadersLeaveRight == SiteSpec => []HeadersRight
<1>1. SiteInv => HeadersRight
  <2> SUFFICES ASSUME SiteInv, wire # None
               PROVE  HeadersRight
    BY DEF HeadersRight, Hardened, PersonalNotShared
  <2>1. req # None /\ Sent(wire)
    BY DEF SiteInv, Placed, Fresh, Worn
  <2>2. server.AppHost \in HostForm /\ server.PagesHost \in HostForm /\ req.header \in HostForm
    BY <2>1, RequestFacts, VettedServer DEF SiteInv, ConfigInv, Requests
  <2>3. Surface = "app" <=> IsFor(server.AppHost)
    <3>1. hostSplit(server, req.header) = [to |-> "app"] => Surface = "app"
      BY DEF Surface
    <3>2. /\ IsFor(server.AppHost) => hostSplit(server, req.header) = [to |-> "app"]
          /\ hostSplit(server, req.header).to = "app" => IsFor(server.AppHost)
      BY <2>2, Split DEF IsFor
    <3> QED
      BY <3>1, <3>2 DEF Surface
  <2>4. Surface = "page" <=>
           ~IsFor(server.AppHost) /\ \E h \in Handles : IsFor(PageHostFor(server, h))
    <3>1. \A h : hostSplit(server, req.header) = [to |-> "page", handle |-> h] => Surface = "page"
      BY DEF Surface
    <3>2. ASSUME NEW h \in Handles
          PROVE  ~IsFor(server.AppHost) /\ IsFor(PageHostFor(server, h)) =>
                     hostSplit(server, req.header) = [to |-> "page", handle |-> h]
      BY <2>2, Split DEF IsFor
    <3>3. hostSplit(server, req.header).to = "page" =>
             ~IsFor(server.AppHost) /\ \E h \in Handles : IsFor(PageHostFor(server, h))
      BY <2>2, Split DEF IsFor
    <3> QED
      BY <3>1, <3>2, <3>3 DEF Surface
  <2>5. Hardened
    BY <2>1, <2>3, <2>4 DEF Hardened, Sent, Policed
  <2>6. PersonalNotShared
    BY <2>1 DEF PersonalNotShared, Sent, Policed, Personal
  <2> QED
    BY <2>5, <2>6 DEF HeadersRight
<1> QED
  BY <1>1, SiteHolds, PTL

\* CrossOriginProtection, BodyLimit and the handlers: what is refused has cost neither a
\* query nor a token, and no more of a body is read than its route allows.
THEOREM GatesHold == SiteSpec => []Gated
<1>1. SiteInv => Gated
  BY DEF SiteInv, Checks, Allowed, Sized, Limited, Gated, GatesFirst
<1> QED
  BY <1>1, SiteHolds, PTL

\* statusRecorder, Recover and RequestLogger: the line names the status that left, or
\* 500 after a panic.
THEOREM LogTells == SiteSpec => []LogHonest
<1>1. SiteInv => LogHonest
  BY DEF SiteInv, Answered, LogHonest
<1> QED
  BY <1>1, SiteHolds, PTL
===============================================================================
