--------------------------- MODULE FeedSelection ---------------------------
(***************************************************************************)
(* From the command line to the archives a build downloads: app/core/      *)
(* config.py parses the options, app/providers/registry.py selects the     *)
(* providers, and static_feed_urls of a provider names its archives.  Two  *)
(* providers look theirs up in a catalog of links: Olsztyn takes the       *)
(* newest archive that is valid today, Wroclaw the first one listed.       *)
(*                                                                         *)
(* A date is <<year, month, day>>.  A link is trusted when its scheme,     *)
(* host and path are those the provider expects; the path holds the dates  *)
(* from which and until which the archive is valid.                        *)
(***************************************************************************)
EXTENDS Integers, Sequences, SequencesExt

CONSTANTS
  Registry,  \* registered_providers(): slug -> provider
  Slug,      \* str.lower: the names an option may give -> slug
  Orders,    \* command lines, catalogs and what the links lead to
  Missing    \* no value

VARIABLES
  order,     \* arguments, catalog, today, site
  stage,     \* "arguments", "settings", "selected", "resolved",
             \* "refused" (the service does not start) or "raised"
  settings,  \* Settings
  selected,  \* the selected providers
  urls       \* static_urls of the provider that is refreshed

selectionVars == <<order, stage, settings, selected, urls>>

-----------------------------------------------------------------------------
(* Calendar dates, as datetime.date admits and compares them.              *)
LeapYear(y) == y % 4 = 0 /\ (y % 100 # 0 \/ y % 400 = 0)
DaysIn(y, m) ==
  IF m = 2 THEN IF LeapYear(y) THEN 29 ELSE 28
  ELSE IF m \in {4, 6, 9, 11} THEN 30 ELSE 31
MaxYear == 9999
PossibleDate(d) ==
  d[1] \in 1 .. MaxYear /\ d[2] \in 1 .. 12 /\ d[3] \in 1 .. DaysIn(d[1], d[2])
OnOrBefore(d, e) ==
  \/ d[1] < e[1]
  \/ d[1] = e[1] /\ d[2] < e[2]
  \/ d[1] = e[1] /\ d[2] = e[2] /\ d[3] <= e[3]

(* A plausible bug: an archive never reaches into the next year.           *)
EndDateSameYear(link) == <<link.start[1], link.until[1], link.until[2]>>

(* The path tells no year of the last day: it is the next year when the    *)
(* month is before the first one.                                          *)
EndDate(link) ==
  << IF link.until[1] < link.start[2] THEN link.start[1] + 1 ELSE link.start[1],
     link.until[1], link.until[2] >>

Trusted(catalog) == {link \in ToSet(catalog) : link.trusted}
Impossible(link) == ~PossibleDate(link.start) \/ ~PossibleDate(EndDate(link))
Covering(catalog, today) ==
  {link \in Trusted(catalog) :
     OnOrBefore(link.start, today) /\ OnOrBefore(today, EndDate(link))}

(* max of the pairs of a first day and an URL.                             *)
IsMax(link, links) ==
  \A other \in links \ {link} :
    /\ OnOrBefore(other.start, link.start)
    /\ other.start = link.start => other.url <= link.url

(* _select_current_feed_url of Olsztyn: date() raises on the first         *)
(* impossible date, whatever else is listed.                               *)
OlsztynUrls(catalog, today) ==
  IF (\E link \in Trusted(catalog) : Impossible(link)) \/ Covering(catalog, today) = {}
  THEN Missing
  ELSE << (CHOOSE link \in Covering(catalog, today) :
             IsMax(link, Covering(catalog, today))).url >>

(* _select_current_feed_url of Wroclaw.                                    *)
WroclawUrls(catalog) ==
  IF Trusted(catalog) = {} THEN Missing
  ELSE << catalog[Min({k \in DOMAIN catalog : catalog[k].trusted})].url >>

(* static_feed_urls, or Missing where it raises.                           *)
StaticFeedUrls(provider, catalog, today) ==
  CASE provider.catalog = "none"    -> <<provider.static_url>> \o provider.additional
    [] provider.catalog = "olsztyn" -> OlsztynUrls(catalog, today)
    [] provider.catalog = "wroclaw" -> WroclawUrls(catalog)

-----------------------------------------------------------------------------
(* A link is a number in alphabetical order; what a provider names leads   *)
(* to an archive.                                                          *)
CatalogLink(o) ==
  [url : DOMAIN o.site, trusted : BOOLEAN,
   start : Nat \X Nat \X Nat, until : Nat \X Nat]

ASSUME SelectionAssumption ==
  /\ \A slug \in DOMAIN Registry : Registry[slug].catalog \in {"none", "olsztyn", "wroclaw"}
  /\ \A o \in Orders :
       /\ DOMAIN o.site \subseteq Nat /\ \A u \in DOMAIN o.site : <<u>> # Missing
       /\ o.catalog \in Seq(CatalogLink(o))
       /\ o.today \in Nat \X Nat \X Nat /\ PossibleDate(o.today)
       /\ \A slug \in DOMAIN Registry :
            /\ Registry[slug].static_url \in DOMAIN o.site
            /\ Registry[slug].additional \in Seq(DOMAIN o.site)

SelectionInit ==
  /\ order \in Orders
  /\ stage = "arguments"
  /\ settings = Missing
  /\ selected = <<>>
  /\ urls = Missing

Accepted(arguments) ==
  arguments.refresh >= 15 /\ arguments.static_refresh >= arguments.refresh

(* parse_settings: slugs in lower case, in the order they are given.       *)
ParseSettings ==
  /\ stage = "arguments"
  /\ \/ /\ Accepted(order.arguments)
        /\ settings' = [order.arguments EXCEPT !.providers =
                          [k \in DOMAIN @ |-> Slug[@[k]]]]
        /\ stage' = "settings"
     \/ /\ ~Accepted(order.arguments)
        /\ stage' = "refused" /\ UNCHANGED settings
  /\ UNCHANGED <<order, selected, urls>>

(* select_providers: all of them when none is requested; a provider that   *)
(* is requested twice is selected twice.                                   *)
SelectProviders ==
  /\ stage = "settings"
  /\ LET requested == IF settings.providers = <<>>
                      THEN SetToSeq(DOMAIN Registry) ELSE settings.providers
     IN  IF ToSet(requested) \subseteq DOMAIN Registry
         THEN /\ selected' = [k \in DOMAIN requested |-> Registry[requested[k]]]
              /\ stage' = "selected"
         ELSE stage' = "refused" /\ UNCHANGED selected
  /\ UNCHANGED <<order, settings, urls>>

(* The refresh cycle asks one of its providers for its archives.           *)
ResolveUrls ==
  /\ stage = "selected"
  /\ \E k \in DOMAIN selected :
       urls' = StaticFeedUrls(selected[k], order.catalog, order.today)
  /\ stage' = IF urls' = Missing THEN "raised" ELSE "resolved"
  /\ UNCHANGED <<order, settings, selected>>

SelectionStep == ParseSettings \/ SelectProviders \/ ResolveUrls

-----------------------------------------------------------------------------
(* The archive that is taken from the catalog of Olsztyn is trusted and    *)
(* valid today, and no other such archive begins later; the lookup fails   *)
(* only when there is none, or when a trusted link has an impossible date. *)
(* The last day is the first of its name in or after the month of the      *)
(* first day, so an archive may reach into the next year.                  *)
LastDay(link) ==
  LET Year(y) == y * 12 + link.until[1] >= link.start[1] * 12 + link.start[2]
      end == CHOOSE y \in link.start[1] .. link.start[1] + 1 :
               Year(y) /\ (Year(y - 1) => y = link.start[1])
  IN  <<end, link.until[1], link.until[2]>>
Ordinal(d) == (d[1] * 12 + d[2]) * 31 + d[3]
ValidToday(link) ==
  Ordinal(link.start) <= Ordinal(order.today) /\ Ordinal(order.today) <= Ordinal(LastDay(link))
OlsztynIsAsked ==
  stage \in {"resolved", "raised"} /\ \A k \in DOMAIN selected : selected[k].catalog = "olsztyn"
SelectionIsNewestValid ==
  OlsztynIsAsked =>
    LET links == {l \in ToSet(order.catalog) : l.trusted}
        valid == {l \in links : ValidToday(l)}
    IN  /\ stage = "resolved" =>
             \E l \in valid : /\ urls = <<l.url>>
                              /\ \A m \in valid : Ordinal(m.start) <= Ordinal(l.start)
        /\ stage = "raised" =>
             \/ valid = {}
             \/ \E l \in links : ~PossibleDate(l.start) \/ ~PossibleDate(LastDay(l))

=============================================================================
