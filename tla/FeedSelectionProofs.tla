------------------------ MODULE FeedSelectionProofs ------------------------
(***************************************************************************)
(* The archive that is taken from a catalog is the newest one that is      *)
(* valid today, whatever the catalog lists; what is resolved always leads  *)
(* to archives.                                                            *)
(***************************************************************************)
EXTENDS FeedSelection, FiniteSetTheorems, FiniteFacts, TLAPS

-----------------------------------------------------------------------------
(* Dates.                                                                  *)

Date == Nat \X Nat \X Nat

(* Counting months and days by 12 and 31 keeps the order of dates that     *)
(* are possible.                                                           *)
LEMMA PossibleDateIsShort ==
  ASSUME NEW d, PossibleDate(d)
  PROVE  /\ d[1] \in Nat /\ d[2] \in 1 .. 12 /\ d[3] \in 1 .. 31
<1>1. d[1] \in 1 .. MaxYear /\ d[2] \in 1 .. 12 /\ d[3] \in 1 .. DaysIn(d[1], d[2])
  BY DEF PossibleDate
<1>2. MaxYear \in Nat
  BY SMT DEF MaxYear
<1>3. d[1] \in Nat
  BY <1>1, <1>2
<1>4. DaysIn(d[1], d[2]) \in {28, 29, 30, 31}
  BY DEF DaysIn
<1> QED
  BY <1>1, <1>3, <1>4

LEMMA OrdinalsInOrder ==
  ASSUME NEW d, PossibleDate(d), NEW e, PossibleDate(e)
  PROVE  OnOrBefore(d, e) <=> Ordinal(d) <= Ordinal(e)
<1>1. PICK y1, y2 \in Nat, m1, m2 \in 1 .. 12, a1, a2 \in 1 .. 31 :
        d[1] = y1 /\ d[2] = m1 /\ d[3] = a1 /\ e[1] = y2 /\ e[2] = m2 /\ e[3] = a2
  <2>1. d[1] \in Nat /\ d[2] \in 1 .. 12 /\ d[3] \in 1 .. 31
    BY PossibleDateIsShort
  <2>2. e[1] \in Nat /\ e[2] \in 1 .. 12 /\ e[3] \in 1 .. 31
    BY PossibleDateIsShort
  <2> QED
    BY <2>1, <2>2
<1>2. OnOrBefore(d, e) <=> y1 < y2 \/ (y1 = y2 /\ m1 < m2) \/ (y1 = y2 /\ m1 = m2 /\ a1 <= a2)
  BY <1>1 DEF OnOrBefore
<1>3. Ordinal(d) <= Ordinal(e) <=> (y1 * 12 + m1) * 31 + a1 <= (y2 * 12 + m2) * 31 + a2
  BY <1>1 DEF Ordinal
<1>4. (y1 * 12 + m1) * 31 + a1 <= (y2 * 12 + m2) * 31 + a2
        <=> y1 < y2 \/ (y1 = y2 /\ m1 < m2) \/ (y1 = y2 /\ m1 = m2 /\ a1 <= a2)
  OBVIOUS
<1> QED
  BY <1>2, <1>3, <1>4

(* The end of an archive is the last day that its name tells.              *)
LEMMA EndIsLastDay ==
  ASSUME NEW link, link.start \in Date, link.until \in Nat \X Nat,
         PossibleDate(link.start), link.until[1] \in 1 .. 12
  PROVE  LastDay(link) = EndDate(link)
<1>1. PICK y \in Nat, m \in 1 .. 12, u \in 1 .. 12 :
        link.start[1] = y /\ link.start[2] = m /\ link.until[1] = u
  <2>1. link.start[1] \in Nat /\ link.start[2] \in 1 .. 12
    BY PossibleDateIsShort
  <2> QED
    BY <2>1
<1> DEFINE Year(z) == z * 12 + u >= y * 12 + m
           Ends(z) == Year(z) /\ (Year(z - 1) => z = y)
           last == IF u < m THEN y + 1 ELSE y
<1>2. last \in y .. y + 1 /\ Ends(last) /\ \A z \in y .. y + 1 : Ends(z) => z = last
  OBVIOUS
<1>3. (CHOOSE z \in y .. y + 1 : Ends(z)) = last
  <2> HIDE DEF Ends, last
  <2> QED
    BY <1>2
<1>4. LastDay(link) = <<CHOOSE z \in y .. y + 1 : Ends(z), link.until[1], link.until[2]>>
  BY <1>1 DEF LastDay
<1>5. EndDate(link) = <<last, link.until[1], link.until[2]>>
  BY <1>1 DEF EndDate
<1> QED
  BY <1>3, <1>4, <1>5

-----------------------------------------------------------------------------
(* Catalogs.                                                               *)

LEMMA CatalogIsFinite ==
  ASSUME NEW o \in Orders
  PROVE  /\ \A link \in ToSet(o.catalog) :
              /\ link.url \in DOMAIN o.site /\ link.url \in Nat
              /\ link.start \in Date /\ link.until \in Nat \X Nat
         /\ IsFiniteSet(ToSet(o.catalog))
<1>1. PICK T : T = CatalogLink(o)
  OBVIOUS
<1>2. PICK c : c = o.catalog
  OBVIOUS
<1>3. c \in Seq(T)
  BY <1>1, <1>2, SelectionAssumption
<1>4. PICK n \in Nat : DOMAIN c = 1 .. n /\ \A k \in 1 .. n : c[k] \in T
  BY <1>3
<1> HIDE <1>3
<1>5. ToSet(c) = {c[k] : k \in 1 .. n}
  BY <1>4 DEF ToSet
<1>6. \A link \in T : /\ link.url \in DOMAIN o.site
                      /\ link.start \in Date /\ link.until \in Nat \X Nat
  BY <1>1 DEF CatalogLink, Date
<1>7. \A u \in DOMAIN o.site : u \in Nat
  BY SelectionAssumption
<1>8. IsFiniteSet(ToSet(c))
  <2>1. PICK f : f = [k \in 1 .. n |-> c[k]]
    OBVIOUS
  <2>2. f \in Surjection(1 .. n, ToSet(c))
    BY <1>5, <2>1 DEF Surjection
  <2>3. IsFiniteSet(1 .. n)
    BY FS_Interval
  <2> QED
    BY <2>2, <2>3, FS_Surjection
<1> QED
  BY <1>2, <1>4, <1>5, <1>6, <1>7, <1>8

(* One of the archives that are valid today is the newest.                 *)
LEMMA NewestExists ==
  ASSUME NEW o \in Orders, NEW links \in SUBSET ToSet(o.catalog), links # {}
  PROVE  \E link \in links : IsMax(link, links)
<1> DEFINE Before(x, y) == \/ ~OnOrBefore(y.start, x.start)
                           \/ x.start = y.start /\ x.url < y.url
           R == {p \in links \X links : Before(p[1], p[2])}
<1>1. IsFiniteSet(links)
  BY CatalogIsFinite, FS_Subset
<1>2. \A x \in links : x.url \in Nat /\ x.start \in Date
  BY CatalogIsFinite
<1>3. \A x, y \in links : <<x, y>> \in R <=> Before(x, y)
  OBVIOUS
<1>4. \A d, e, f \in Date :
        /\ OnOrBefore(d, d)
        /\ OnOrBefore(d, e) \/ OnOrBefore(e, d)
        /\ OnOrBefore(d, e) /\ OnOrBefore(e, d) => d = e
        /\ OnOrBefore(d, e) /\ OnOrBefore(e, f) => OnOrBefore(d, f)
  BY DEF OnOrBefore, Date
<1>5. \A x \in links : ~Before(x, x)
  BY <1>2, <1>4
<1>6. \A x, y, z \in links : Before(x, y) /\ Before(y, z) => Before(x, z)
  <2> SUFFICES ASSUME NEW x \in links, NEW y \in links, NEW z \in links,
                      Before(x, y), Before(y, z)
               PROVE  Before(x, z)
    OBVIOUS
  <2>1. OnOrBefore(x.start, y.start) /\ OnOrBefore(y.start, z.start)
    BY <1>2, <1>4
  <2>2. CASE ~OnOrBefore(z.start, x.start)
    BY <2>2
  <2>3. CASE OnOrBefore(z.start, x.start)
    <3>1. x.start = y.start /\ y.start = z.start
      BY <1>2, <1>4, <2>1, <2>3
    <3>2. OnOrBefore(x.start, x.start)
      BY <1>2, <1>4
    <3>3. x.url < y.url /\ y.url < z.url
      BY <3>1, <3>2
    <3>4. x.url < z.url
      BY <1>2, <3>3
    <3> QED
      BY <3>1, <3>4
  <2> QED
    BY <2>2, <2>3
<1> HIDE DEF R, Before
<1>7. PICK m \in links : \A x \in links : <<m, x>> \notin R
  BY <1>1, <1>3, <1>5, <1>6, LastElement
<1>8. \A x \in links : ~Before(m, x)
  BY <1>3, <1>7
<1>9. IsMax(m, links)
  BY <1>2, <1>8 DEF IsMax, Before
<1> QED
  BY <1>9

(* What a provider resolves to leads to archives.                          *)
LEMMA OlsztynLeads ==
  ASSUME NEW o \in Orders, OlsztynUrls(o.catalog, o.today) # Missing
  PROVE  /\ \A link \in Trusted(o.catalog) : ~Impossible(link)
         /\ \E link \in Covering(o.catalog, o.today) :
              /\ IsMax(link, Covering(o.catalog, o.today))
              /\ OlsztynUrls(o.catalog, o.today) = <<link.url>>
<1> DEFINE links == Covering(o.catalog, o.today)
           newest == CHOOSE link \in links : IsMax(link, links)
<1>1. /\ ~ \E link \in Trusted(o.catalog) : Impossible(link)
      /\ links # {} /\ OlsztynUrls(o.catalog, o.today) = <<newest.url>>
  BY DEF OlsztynUrls
<1>2. links \in SUBSET ToSet(o.catalog)
  BY DEF Covering, Trusted
<1> HIDE DEF links
<1>3. \E link \in links : IsMax(link, links)
  BY <1>1, <1>2, NewestExists
<1>4. newest \in links /\ IsMax(newest, links)
  BY <1>3
<1> QED
  BY <1>1, <1>4 DEF links

LEMMA WroclawLeads ==
  ASSUME NEW o \in Orders, WroclawUrls(o.catalog) # Missing
  PROVE  \E link \in ToSet(o.catalog) : WroclawUrls(o.catalog) = <<link.url>>
<1> DEFINE c == o.catalog
           T == {k \in DOMAIN c : c[k].trusted}
<1>1. Trusted(c) # {} /\ WroclawUrls(c) = <<c[Min(T)].url>>
  BY DEF WroclawUrls
<1>2. T # {}
  BY <1>1 DEF Trusted, ToSet
<1>3. T \in SUBSET Nat
  <2>1. PICK L : L = CatalogLink(o)
    OBVIOUS
  <2>2. PICK d : d = o.catalog
    OBVIOUS
  <2>3. d \in Seq(L)
    BY <2>1, <2>2, SelectionAssumption
  <2>4. DOMAIN d \in SUBSET Nat
    BY <2>3
  <2> QED
    BY <2>2, <2>4
<1> HIDE DEF T
<1>4. PICK n \in T : \A m \in T : n <= m
  BY <1>2, <1>3, LeastNatural
<1>5. Min(T) \in T
  <2> DEFINE least == CHOOSE x \in T : \A y \in T : x <= y
  <2>1. least \in T
    BY <1>4
  <2>2. Min(T) = least
    BY DEF Min
  <2> QED
    BY <2>1, <2>2
<1>6. c[Min(T)] \in ToSet(c)
  <2>1. Min(T) \in DOMAIN c
    BY <1>5 DEF T
  <2> QED
    BY <2>1 DEF ToSet
<1> QED
  BY <1>1, <1>6 DEF c

(* What is resolved is a list of archives, and not an empty one.           *)
Leads(o, u) == \E n \in Nat \ {0} : Len(u) = n /\ u \in [1 .. n -> DOMAIN o.site]

LEMMA OneLeads ==
  ASSUME NEW o, NEW x \in DOMAIN o.site, NEW u, u = <<x>>
  PROVE  Leads(o, u)
<1>1. Len(u) = 1 /\ DOMAIN u = 1 .. 1 /\ u[1] = x
  OBVIOUS
<1>2. u = [k \in 1 .. 1 |-> u[k]]
  OBVIOUS
<1>3. u \in [1 .. 1 -> DOMAIN o.site]
  BY <1>1, <1>2
<1> QED
  BY <1>1, <1>3 DEF Leads

LEMMA UrlsLead ==
  ASSUME NEW o \in Orders, NEW slug \in DOMAIN Registry, NEW u, u # Missing,
         u = StaticFeedUrls(Registry[slug], o.catalog, o.today)
  PROVE  Leads(o, u)
<1> DEFINE p == Registry[slug]
<1>1. p.catalog \in {"none", "olsztyn", "wroclaw"}
  BY SelectionAssumption
<1>2. p.static_url \in DOMAIN o.site /\ p.additional \in Seq(DOMAIN o.site)
  BY SelectionAssumption
<1> HIDE DEF p
<1>3. CASE p.catalog = "none"
  <2>1. u = <<p.static_url>> \o p.additional
    BY <1>3 DEF StaticFeedUrls, p
  <2>2. PICK more \in Seq(DOMAIN o.site) : more = p.additional
    BY <1>2
  <2>3. PICK n \in Nat : n = Len(more)
    OBVIOUS
  <2>4. u = <<p.static_url>> \o more
    BY <2>1, <2>2
  <2>5. u \in Seq(DOMAIN o.site) /\ Len(u) = n + 1
    <3>1. PICK S : S = DOMAIN o.site
      OBVIOUS
    <3>2. PICK first \in S : first = p.static_url
      BY <1>2, <3>1
    <3>3. more \in Seq(S)
      BY <3>1
    <3> HIDE <1>2
    <3>4. <<first>> \o more \in Seq(S) /\ Len(<<first>> \o more) = n + 1
      BY <2>3, <3>3
    <3> QED
      BY <2>4, <3>1, <3>2, <3>4
  <2>6. u \in [1 .. n + 1 -> DOMAIN o.site]
    BY <2>5
  <2>7. n + 1 \in Nat \ {0}
    OBVIOUS
  <2> QED
    BY <2>5, <2>6, <2>7 DEF Leads
<1>4. CASE p.catalog = "olsztyn"
  <2>1. u = OlsztynUrls(o.catalog, o.today)
    BY <1>4 DEF StaticFeedUrls, p
  <2>2. PICK link \in Covering(o.catalog, o.today) : u = <<link.url>>
    BY <2>1, OlsztynLeads
  <2>3. link \in ToSet(o.catalog)
    BY DEF Covering, Trusted
  <2>4. link.url \in DOMAIN o.site
    BY <2>3, CatalogIsFinite
  <2> QED
    BY <2>2, <2>4, OneLeads
<1>5. CASE p.catalog = "wroclaw"
  <2>1. u = WroclawUrls(o.catalog)
    BY <1>5 DEF StaticFeedUrls, p
  <2>2. PICK link \in ToSet(o.catalog) : u = <<link.url>>
    BY <2>1, WroclawLeads
  <2>3. link.url \in DOMAIN o.site
    BY CatalogIsFinite
  <2> QED
    BY <2>2, <2>3, OneLeads
<1> QED
  BY <1>1, <1>3, <1>4, <1>5

-----------------------------------------------------------------------------
(* The invariant of the selection: the outcome is what one of the selected *)
(* providers, all of them registered, resolves to.                         *)

Stages == {"arguments", "settings", "selected", "resolved", "refused", "raised"}
SelectionInv ==
  /\ order \in Orders
  /\ stage \in Stages
  /\ \A k \in DOMAIN selected : \E slug \in DOMAIN Registry : selected[k] = Registry[slug]
  /\ stage \in {"resolved", "raised"} =>
       \E k \in DOMAIN selected :
         urls = StaticFeedUrls(selected[k], order.catalog, order.today)
  /\ stage = "resolved" => urls # Missing
  /\ stage = "raised" => urls = Missing

LEMMA SelectionStarts ==
  SelectionInit => SelectionInv
BY DEF SelectionInit, SelectionInv, Stages

LEMMA SelectionSteps ==
  SelectionInv /\ [SelectionStep]_selectionVars => SelectionInv'
<1> SUFFICES ASSUME SelectionInv, [SelectionStep]_selectionVars
             PROVE  SelectionInv'
  OBVIOUS
<1>1. CASE ParseSettings
  BY <1>1 DEF ParseSettings, SelectionInv, Stages
<1>2. CASE SelectProviders
  <2>1. PICK requested :
          \/ /\ ToSet(requested) \subseteq DOMAIN Registry
             /\ selected' = [k \in DOMAIN requested |-> Registry[requested[k]]]
             /\ stage' = "selected"
          \/ stage' = "refused" /\ selected' = selected
    BY <1>2 DEF SelectProviders
  <2>2. order' = order
    BY <1>2 DEF SelectProviders
  <2>3. stage' \in Stages /\ stage' \notin {"resolved", "raised"}
    BY <2>1 DEF Stages
  <2>4. \A k \in DOMAIN selected' : \E slug \in DOMAIN Registry : selected'[k] = Registry[slug]
    <3>1. CASE /\ ToSet(requested) \subseteq DOMAIN Registry
               /\ selected' = [k \in DOMAIN requested |-> Registry[requested[k]]]
      BY <3>1 DEF ToSet
    <3>2. CASE selected' = selected
      BY <3>2 DEF SelectionInv
    <3> QED
      BY <2>1, <3>1, <3>2
  <2> QED
    BY <2>2, <2>3, <2>4 DEF SelectionInv
<1>3. CASE ResolveUrls
  <2>1. PICK k \in DOMAIN selected :
          urls' = StaticFeedUrls(selected[k], order.catalog, order.today)
    BY <1>3 DEF ResolveUrls
  <2>2. /\ stage' = IF urls' = Missing THEN "raised" ELSE "resolved"
        /\ order' = order /\ selected' = selected
    BY <1>3 DEF ResolveUrls
  <2>3. \E j \in DOMAIN selected' :
          urls' = StaticFeedUrls(selected'[j], order'.catalog, order'.today)
    BY <2>1, <2>2
  <2> QED
    BY <2>2, <2>3 DEF SelectionInv, Stages
<1>4. CASE UNCHANGED selectionVars
  BY <1>4 DEF selectionVars, SelectionInv
<1> QED
  BY <1>1, <1>2, <1>3, <1>4 DEF SelectionStep

(* Whatever is resolved leads to archives.                                 *)
LEMMA ResolvedLeads ==
  SelectionInv /\ stage = "resolved" => Leads(order, urls)
<1> SUFFICES ASSUME SelectionInv, stage = "resolved"
             PROVE  Leads(order, urls)
  OBVIOUS
<1>1. PICK k \in DOMAIN selected :
        urls = StaticFeedUrls(selected[k], order.catalog, order.today)
  BY DEF SelectionInv
<1>2. PICK slug \in DOMAIN Registry : selected[k] = Registry[slug]
  BY DEF SelectionInv
<1>3. PICK o \in Orders : o = order
  BY DEF SelectionInv
<1>4. PICK u : u = urls /\ u # Missing
  BY DEF SelectionInv
<1>5. u = StaticFeedUrls(Registry[slug], o.catalog, o.today)
  BY <1>1, <1>2, <1>3, <1>4
<1>6. Leads(o, u)
  BY <1>4, <1>5, UrlsLead
<1> QED
  BY <1>3, <1>4, <1>6

(* The archive of Olsztyn is the newest of those that are valid today.     *)
LEMMA NewestIsSelected ==
  SelectionInv => SelectionIsNewestValid
<1> SUFFICES ASSUME SelectionInv, OlsztynIsAsked
             PROVE  LET links == {l \in ToSet(order.catalog) : l.trusted}
                        valid == {l \in links : ValidToday(l)}
                    IN  /\ stage = "resolved" =>
                             \E l \in valid : /\ urls = <<l.url>>
                                              /\ \A m \in valid : Ordinal(m.start) <= Ordinal(l.start)
                        /\ stage = "raised" =>
                             \/ valid = {}
                             \/ \E l \in links : ~PossibleDate(l.start) \/ ~PossibleDate(LastDay(l))
  BY DEF SelectionIsNewestValid
<1> DEFINE links == {l \in ToSet(order.catalog) : l.trusted}
           valid == {l \in links : ValidToday(l)}
<1>1. stage \in {"resolved", "raised"}
  BY DEF OlsztynIsAsked
<1>2. PICK k \in DOMAIN selected :
        urls = StaticFeedUrls(selected[k], order.catalog, order.today)
  BY <1>1 DEF SelectionInv
<1>3. selected[k].catalog = "olsztyn"
  BY DEF OlsztynIsAsked
<1>4. urls = OlsztynUrls(order.catalog, order.today)
  BY <1>2, <1>3 DEF StaticFeedUrls
<1>5. PICK o \in Orders : o = order
  BY DEF SelectionInv
<1>6. links = Trusted(o.catalog)
  BY <1>5 DEF Trusted
<1>7. /\ PossibleDate(o.today)
      /\ \A l \in links : l.start \in Date /\ l.until \in Nat \X Nat
  BY <1>5, CatalogIsFinite, SelectionAssumption
<1>8. ASSUME NEW l \in links
      PROVE  /\ ~Impossible(l) => (l \in valid <=> l \in Covering(o.catalog, o.today))
             /\ Impossible(l) => ~PossibleDate(l.start) \/ ~PossibleDate(LastDay(l))
  <2>1. CASE Impossible(l)
    <3>1. CASE ~PossibleDate(l.start)
      BY <2>1, <3>1
    <3>2. CASE PossibleDate(l.start) /\ l.until[1] \in 1 .. 12
      <4>1. LastDay(l) = EndDate(l)
        BY <1>7, <3>2, EndIsLastDay
      <4> QED
        BY <2>1, <3>2, <4>1 DEF Impossible
    <3>3. CASE l.until[1] \notin 1 .. 12
      <4>1. LastDay(l)[2] = l.until[1]
        BY DEF LastDay
      <4>2. ~PossibleDate(LastDay(l))
        BY <3>3, <4>1 DEF PossibleDate
      <4> QED
        BY <2>1, <4>2
    <3> QED
      BY <3>1, <3>2, <3>3
  <2>2. CASE ~Impossible(l)
    <3>1. PossibleDate(l.start) /\ PossibleDate(EndDate(l))
      BY <2>2 DEF Impossible
    <3>2. l.until[1] \in 1 .. 12
      <4>1. EndDate(l)[2] = l.until[1]
        BY DEF EndDate
      <4>2. EndDate(l)[2] \in 1 .. 12
        BY <3>1, PossibleDateIsShort
      <4> QED
        BY <4>1, <4>2
    <3>3. LastDay(l) = EndDate(l)
      BY <1>7, <3>1, <3>2, EndIsLastDay
    <3>4. /\ OnOrBefore(l.start, o.today) <=> Ordinal(l.start) <= Ordinal(o.today)
          /\ OnOrBefore(o.today, EndDate(l)) <=> Ordinal(o.today) <= Ordinal(EndDate(l))
      BY <1>7, <3>1, OrdinalsInOrder
    <3>5. ValidToday(l) <=> OnOrBefore(l.start, o.today) /\ OnOrBefore(o.today, EndDate(l))
      BY <1>5, <3>3, <3>4 DEF ValidToday
    <3> QED
      BY <1>6, <2>2, <3>5 DEF Covering
  <2> QED
    BY <2>1, <2>2
<1> HIDE DEF links, valid
<1>9. CASE stage = "resolved"
  <2>1. OlsztynUrls(o.catalog, o.today) # Missing
    BY <1>4, <1>5, <1>9 DEF SelectionInv
  <2>2. \A l \in links : ~Impossible(l)
    BY <1>6, <2>1, OlsztynLeads
  <2>3. PICK l \in Covering(o.catalog, o.today) :
          /\ IsMax(l, Covering(o.catalog, o.today))
          /\ urls = <<l.url>>
    BY <1>4, <1>5, <2>1, OlsztynLeads
  <2>4. valid = Covering(o.catalog, o.today)
    <3>1. valid \subseteq links /\ Covering(o.catalog, o.today) \subseteq links
      BY <1>6 DEF valid, Covering
    <3> QED
      BY <1>8, <2>2, <3>1
  <2>5. ASSUME NEW m \in valid
        PROVE  Ordinal(m.start) <= Ordinal(l.start)
    <3>1. PossibleDate(m.start) /\ PossibleDate(l.start)
      <4>1. m \in links /\ l \in links
        BY <2>4 DEF valid
      <4> QED
        BY <2>2, <4>1 DEF Impossible
    <3>2. OnOrBefore(m.start, l.start)
      <4>1. CASE m = l
        <5>1. PICK y \in Nat, n \in 1 .. 12, a \in 1 .. 31 :
                l.start[1] = y /\ l.start[2] = n /\ l.start[3] = a
          <6>1. /\ l.start[1] \in Nat /\ l.start[2] \in 1 .. 12
                /\ l.start[3] \in 1 .. 31
            BY <3>1, PossibleDateIsShort
          <6> QED
            BY <6>1
        <5> QED
          BY <4>1, <5>1 DEF OnOrBefore
      <4>2. CASE m # l
        BY <2>3, <2>4, <4>2 DEF IsMax
      <4> QED
        BY <4>1, <4>2
    <3> QED
      BY <3>1, <3>2, OrdinalsInOrder
  <2>6. \E x \in valid : /\ urls = <<x.url>>
                         /\ \A m \in valid : Ordinal(m.start) <= Ordinal(x.start)
    BY <2>3, <2>4, <2>5
  <2> QED
    BY <1>9, <2>6 DEF links, valid
<1>10. CASE stage = "raised"
  <2>1. OlsztynUrls(o.catalog, o.today) = Missing
    BY <1>4, <1>5, <1>10 DEF SelectionInv
  <2>2. valid = {} \/ \E l \in links : ~PossibleDate(l.start) \/ ~PossibleDate(LastDay(l))
    <3>1. CASE \E l \in links : Impossible(l)
      BY <1>8, <3>1
    <3>2. CASE \A l \in links : ~Impossible(l)
      <4>1. Covering(o.catalog, o.today) = {}
        <5> SUFFICES ASSUME Covering(o.catalog, o.today) # {}
                     PROVE  FALSE
          OBVIOUS
        <5>1. PICK l \in Covering(o.catalog, o.today) :
                OlsztynUrls(o.catalog, o.today) = <<l.url>>
          <6> DEFINE L == Covering(o.catalog, o.today)
                     newest == CHOOSE link \in L : IsMax(link, L)
          <6>1. OlsztynUrls(o.catalog, o.today) = <<newest.url>>
            BY <1>6, <3>2 DEF OlsztynUrls
          <6>2. L \in SUBSET ToSet(o.catalog)
            BY DEF Covering, Trusted
          <6>3. L # {}
            OBVIOUS
          <6> HIDE DEF L
          <6>4. \E link \in L : IsMax(link, L)
            BY <6>2, <6>3, NewestExists
          <6>5. newest \in L
            BY <6>4
          <6> QED
            BY <6>1, <6>5 DEF L
        <5>2. l \in ToSet(o.catalog)
          BY DEF Covering, Trusted
        <5>3. l.url \in DOMAIN o.site
          BY <5>2, CatalogIsFinite
        <5>4. <<l.url>> # Missing
          BY <5>3, SelectionAssumption
        <5> QED
          BY <2>1, <5>1, <5>4
      <4>2. valid \subseteq links
        BY DEF valid
      <4> QED
        BY <1>8, <3>2, <4>1, <4>2
    <3> QED
      BY <3>1, <3>2
  <2> QED
    BY <1>10, <2>2 DEF links, valid
<1> QED
  BY <1>1, <1>9, <1>10 DEF links, valid

=============================================================================
