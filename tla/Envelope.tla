------------------------------ MODULE Envelope ------------------------------
(***************************************************************************)
(* The envelope of a message (its sender and recipients) and the pure      *)
(* functions the relay applies to it: the relay filters, the rewrite rules *)
(* and the grouping of recipients by destination.                          *)
(*                                                                         *)
(* An address user@host is a record; "bracketed" tells user@[host] from    *)
(* user@host, the one distinction on which the two domainOf functions of   *)
(* the code disagree.  A pattern is a value; Covers[p] is the set of texts *)
(* matchPattern accepts for it.                                            *)
(***************************************************************************)
EXTENDS Naturals, Sequences

CONSTANTS User, Host,       \* the parts addresses are made of
          Pattern, Covers,  \* patterns, and the texts each one matches
          Static            \* TRUE: downstream_url is set (static routing)

Address == [user: User, host: Host, bracketed: BOOLEAN]

ASSUME StaticAssumption == Static \in BOOLEAN

FilterFields == {"mail_from", "mail_to", "domain"}
RuleFields   == {"mail_from", "mail_to", "downstream"}

RelayFilter == [field: FilterFields, pattern: Pattern, enabled: BOOLEAN]
RewriteRule == [field: RuleFields, pattern: Pattern, replacement: Address,
                enabled: BOOLEAN]

\* matchPattern: exact, "*suffix" or "prefix*", abstracted to what it accepts.
Matches(p, text) == text \in Covers[p]

\* domainOf of package server keeps the brackets ...
DomainText(a) == [name |-> a.host, bracketed |-> a.bracketed]

\* ... and applied to the recipients joined with "," it cuts after the first
\* "@", so that with several recipients the rest of the list stays in the text.
JoinedDomainText(to) ==
  IF Len(to) = 1 THEN DomainText(to[1])
                 ELSE [joined |-> <<DomainText(to[1]), Tail(to)>>]

\* The configured downstream_url, as a text a pattern may match.
DownstreamURL == [url |-> "downstream_url"]

\* domainOf of package forwarder strips the brackets.
RouteDomain(a) == a.host

-----------------------------------------------------------------------------
(* Relay filters                                                           *)

FilterAccepts(f, from, to) ==
  \/ f.field = "mail_from" /\ Matches(f.pattern, from)
  \/ f.field = "mail_to"   /\ \E i \in DOMAIN to : Matches(f.pattern, to[i])
  \/ /\ f.field = "domain"
     /\ \/ Matches(f.pattern, DomainText(from))
        \/ Matches(f.pattern, JoinedDomainText(to))
        \/ \E i \in DOMAIN to : Matches(f.pattern, DomainText(to[i]))

\* matchesFilter over the listed filters; no filter at all means "deny".
MatchesFilter(filters, from, to) ==
  \E i \in DOMAIN filters :
     filters[i].enabled /\ FilterAccepts(filters[i], from, to)

-----------------------------------------------------------------------------
(* Rewrite rules: the body of the loop of applyRewrites                    *)

\* The recipients are rewritten in place, one by one.
RewriteTo(to, rule) ==
  [i \in DOMAIN to |-> IF Matches(rule.pattern, to[i]) THEN rule.replacement
                                                       ELSE to[i]]

\* Nothing but a debug line comes of a rule whose field is "downstream".
Rewrite(env, rule) ==
  CASE rule.enabled /\ rule.field = "mail_from" /\ Matches(rule.pattern, env.from)
         -> [from |-> rule.replacement, to |-> env.to]
    [] rule.enabled /\ rule.field = "mail_to"
         -> [from |-> env.from, to |-> RewriteTo(env.to, rule)]
    [] OTHER -> env

-----------------------------------------------------------------------------
(* Destinations                                                            *)

\* groupByDomain; in static mode one group, named after the first recipient.
Groups(env) ==
  IF Static THEN {RouteDomain(env.to[1])}
            ELSE {RouteDomain(env.to[i]) : i \in DOMAIN env.to}

\* The positions of the recipients that belong to the group of domain d.
Members(env, d) ==
  IF Static THEN DOMAIN env.to
            ELSE {i \in DOMAIN env.to : RouteDomain(env.to[i]) = d}

\* The attempts Forward makes for a group, in order.
FirstTry  == IF Static THEN "downstream" ELSE "https"
Tries     == IF Static THEN {"downstream"} ELSE {"https", "http"}
=============================================================================
