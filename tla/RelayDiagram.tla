----------------------------- MODULE RelayDiagram -----------------------------
(***************************************************************************)
(* The diagram on the overview page (lib/components/RelayDiagram.svelte):  *)
(* wires that tell which destinations go through a proxy, drawn again when *)
(* the tables in the store change, and bubbles that travel along while the *)
(* tables, and with them the number of their legs, change under them.      *)
(*                                                                         *)
(* The browser decides by a regular expression over the authority of the   *)
(* downstream URL what the server decides by LIKE over the host in it;     *)
(* both are taken as they translate a route's pattern.  Texts are          *)
(* sequences of characters, of one case: both sides ignore case.  The      *)
(* store never has messages, as the server has no such resource, so there  *)
(* are two nameless destinations unless there is a fixed downstream.       *)
(***************************************************************************)
EXTENDS Naturals, Sequences, SequencesExt

CONSTANTS Char,        \* characters of texts; an end of line is none
          Urls,        \* what downstream_url may be
          NoUrl,       \* dynamic routing: it is empty
          Proxies,     \* what the table proxies may hold: ids switched on
          RouteLists,  \* what the table proxy_routes may hold: dest, proxyId
          Placeholder, \* a label no pattern is meant for: "Dest A", "Dest B"
          Frames,      \* frames a bubble takes for a leg
          MaxBubbles,  \* bound on the bubbles ever spawned
          MaxChanges   \* bound on the changes of the tables

ASSUME DiagramAssumption ==
  /\ NoUrl \in Urls
  /\ Frames \in Nat \ {0} /\ MaxBubbles \in Nat /\ MaxChanges \in Nat

\* A URL is what its authority consists of: the host, before it a user or "[", and
\* after it "]" or a port.  Scheme and path are left out.

\* What a pattern consists of: ".", "*" and "?", and the characters that stand for
\* themselves in a regular expression and in a LIKE.  Patterns with others are left
\* out: the two sides take them for different things.
PatternChar ==
  Char \ {"\\", "^", "$", "+", "|", "(", ")", "[", "]", "{", "}", "%", "_"}

ASSUME TextAssumption ==
  /\ {"\\", ".", "*", "?", "%", "_"} \subseteq Char
  /\ Urls \ {NoUrl} \subseteq [lead: Seq(Char), host: Seq(Char), tail: Seq(Char)]
  /\ Placeholder \in Seq(Char)
  /\ RouteLists \subseteq Seq([dest: Seq(PatternChar), proxyId: Nat \ {0}])

VARIABLES
  config, proxies, proxyRoutes, \* the props: downstream_url and the tables
  drawn,                        \* what render drew: labels, and which by proxy
  dirty,                        \* the effect that renders is due
  page,                         \* "new", "open" or "left"
  visible,                      \* FALSE: the browser tab is hidden
  timeouts,                     \* spawnBubble timeouts still to fire
  bubbles, uid,
  changes

props == <<config, proxies, proxyRoutes>>
vars  == <<props, drawn, dirty, page, visible, timeouts, bubbles, uid, changes>>

-----------------------------------------------------------------------------
(* Patterns                                                                *)

\* Every c of s becomes r.
Replaced(s, c, r) ==
  FlattenSeq([i \in 1 .. Len(s) |-> IF s[i] = c THEN r ELSE <<s[i]>>])

\* The source of the regular expression.
Pattern(dest) ==
  Replaced(Replaced(Replaced(dest, ".", <<"\\", ".">>), "*", <<".", "*">>),
             "?", <<".">>)

\* Where a matcher can be: at a character of the pattern and one of the text, or
\* past them.
Places(pattern, s) == (1 .. Len(pattern) + 2) \X (1 .. Len(s) + 1)

\* A literal, "\." or "." at i of a regular expression: whether it fits the
\* character of the text at j, and where what follows it is.
Fits(re, s, i, j) ==
  /\ j <= Len(s)
  /\ IF re[i] = "\\" THEN s[j] = re[i + 1] ELSE re[i] \in {".", s[j]}

Behind(re, i) == i + IF re[i] = "\\" THEN 2 ELSE 1

\* It may be repeated.
Repeats(re, i) == Behind(re, i) <= Len(re) /\ re[Behind(re, i)] = "*"

\* External: RegExp, anchored, for literals, "\.", "." and "x*".
RegExpTest(re, s) ==
  LET m[p \in Places(re, s)] ==
        LET i == p[1]
            j == p[2]
        IN  IF i > Len(re) THEN j = Len(s) + 1
            ELSE IF Repeats(re, i)
                 THEN \/ m[<<Behind(re, i) + 1, j>>]
                      \/ Fits(re, s, i, j) /\ m[<<i, j + 1>>]
                 ELSE Fits(re, s, i, j) /\ m[<<Behind(re, i), j + 1>>]
  IN  m[<<1, 1>>]

\* The server: REPLACE(REPLACE(destination, '*', '%'), '?', '_').
LikePattern(dest) == Replaced(Replaced(dest, "*", <<"%">>), "?", <<"_">>)

\* External: LIKE of SQLite.
Like(s, like) ==
  LET m[p \in Places(like, s)] ==
        LET i == p[1]
            j == p[2]
        IN  IF i > Len(like) THEN j = Len(s) + 1
            ELSE IF like[i] = "%"
                 THEN \/ m[<<i + 1, j>>]
                      \/ j <= Len(s) /\ m[<<i, j + 1>>]
                 ELSE j <= Len(s) /\ like[i] \in {"_", s[j]} /\ m[<<i + 1, j + 1>>]
  IN  m[<<1, 1>>]

-----------------------------------------------------------------------------
(* The downstream URL                                                      *)

\* The diagram takes off scheme and path, and shows what is left.
Label(url) == url.lead \o url.host \o url.tail

\* Hostname() of the server's URL.
Hostname(url) == url.host

\* What the browser and the server take a route's pattern to match.
Patterns == UNION {{r.dest : r \in Range(rs)} : rs \in RouteLists}

BrowserMatches ==
  [p \in Patterns |->
     {s \in {Label(u) : u \in Urls \ {NoUrl}} \cup {Placeholder} : RegExpTest(Pattern(p), s)}]

ServerMatches ==
  [p \in Patterns |->
     {s \in {Hostname(u) : u \in Urls \ {NoUrl}} : Like(s, LikePattern(p))}]

-----------------------------------------------------------------------------
(* Derived values                                                          *)

\* The places of the routes whose proxy is there and switched on.
ActiveRoutes == {i \in DOMAIN proxyRoutes : proxyRoutes[i].proxyId \in proxies}

\* The id of the first of their proxies, 0 for null.
ActiveProxy ==
  IF ActiveRoutes = {} THEN 0 ELSE proxyRoutes[Min(ActiveRoutes)].proxyId
HasProxy    == ActiveProxy # 0

\* Labels of the destinations.
Dests == IF config # NoUrl THEN <<Label(config)>> ELSE <<Placeholder, Placeholder>>

Proxied(label) ==
  HasProxy /\ \E i \in ActiveRoutes : label \in BrowserMatches[proxyRoutes[i].dest]

\* Which wires to the destinations go through the proxy.
Wires == [i \in 1 .. Len(Dests) |-> Proxied(Dests[i])]

\* The proxy that is drawn, 0 for none.
ProxyNode == IF TRUE \in Range(Wires) THEN ActiveProxy ELSE 0

\* render: nodes and wires of the destinations, and the proxy if a wire needs it.
Drawing == [labels |-> Dests, proxied |-> Wires, proxy |-> ProxyNode]

Blank == [labels |-> <<>>, proxied |-> <<>>, proxy |-> 0]

\* The store may have been loaded while another page was open.
Init ==
  /\ config \in Urls /\ proxies \in Proxies /\ proxyRoutes \in RouteLists
  /\ drawn = Blank /\ dirty = FALSE
  /\ page = "new" /\ visible = TRUE /\ timeouts = 0
  /\ bubbles = {} /\ uid = 0
  /\ changes = 0

-----------------------------------------------------------------------------
(* The store changes the props, and the effect renders                     *)

\* Slip: the effect depends on the values it lists and not on those that render
\* reads, so a proxy that is not the active one goes unnoticed.
TouchedOnly ==
  \/ config' # config \/ proxyRoutes' # proxyRoutes
  \/ ActiveProxy' # ActiveProxy

\* What the effect depends on: all that render reads.
Touched == props' # props

ChangeProps ==
  /\ changes < MaxChanges /\ changes' = changes + 1
  /\ \/ config' \in Urls /\ UNCHANGED <<proxies, proxyRoutes>>
     \/ proxies' \in Proxies /\ UNCHANGED <<config, proxyRoutes>>
     \/ proxyRoutes' \in RouteLists /\ UNCHANGED <<config, proxies>>
  /\ dirty' = (dirty \/ (page = "open" /\ Touched))
  /\ UNCHANGED <<drawn, page, visible, timeouts, bubbles, uid>>

Render ==
  /\ dirty
  /\ drawn' = Drawing /\ dirty' = FALSE
  /\ UNCHANGED <<props, page, visible, timeouts, bubbles, uid, changes>>

-----------------------------------------------------------------------------
(* Bubbles                                                                 *)

\* A bubble of either direction; between which servers it travels is left out.
Spawn ==
  /\ uid < MaxBubbles /\ uid' = uid + 1
  /\ \E dir \in {"ltr", "rtl"} :
        bubbles' = bubbles \cup {[id |-> uid, dir |-> dir, phase |-> 1, t |-> 0]}

Mount ==
  /\ page = "new"
  /\ page' = "open"
  /\ drawn' = Drawing
  /\ timeouts' = 2
  /\ Spawn
  /\ UNCHANGED <<props, dirty, visible, changes>>

SpawnByTimeout ==
  /\ timeouts > 0 /\ timeouts' = timeouts - 1
  /\ Spawn
  /\ UNCHANGED <<props, drawn, dirty, page, visible, changes>>

\* setInterval, in a hidden tab too.
SpawnByInterval ==
  /\ page = "open"
  /\ Spawn
  /\ UNCHANGED <<props, drawn, dirty, page, visible, timeouts, changes>>

Legs(b) == IF b.dir = "ltr" /\ HasProxy THEN 3 ELSE 2

\* Slip: # for <; a bubble whose last leg vanished goes on.
MoreLegsUnequal(b) == b.phase # Legs(b)

MoreLegs(b) == b.phase < Legs(b)

\* Slip: the next leg is started without counting it.
MovedInPlace(b) ==
  IF b.t + 1 < Frames THEN {[b EXCEPT !.t = b.t + 1]}
  ELSE IF MoreLegs(b) THEN {[b EXCEPT !.t = 0]}
  ELSE {}

\* One frame: on with the leg, on to the next, or away.
Moved(b) ==
  IF b.t + 1 < Frames THEN {[b EXCEPT !.t = b.t + 1]}
  ELSE IF MoreLegs(b) THEN {[b EXCEPT !.phase = b.phase + 1, !.t = 0]}
  ELSE {}

\* d3.timer runs on animation frames, which a hidden tab does not get.
AnimateBubbles ==
  /\ page = "open" /\ visible
  /\ bubbles # {}
  /\ bubbles' = UNION {Moved(b) : b \in bubbles}
  /\ UNCHANGED <<props, drawn, dirty, page, visible, timeouts, uid, changes>>

-----------------------------------------------------------------------------

ShowOrHide ==
  /\ visible' = ~visible
  /\ UNCHANGED <<props, drawn, dirty, page, timeouts, bubbles, uid, changes>>

\* The operator goes to another page: timer and interval are stopped, timeouts
\* are not.
Leave ==
  /\ page = "open"
  /\ page' = "left" /\ dirty' = FALSE
  /\ UNCHANGED <<props, drawn, visible, timeouts, bubbles, uid, changes>>

Next ==
  \/ ChangeProps \/ Render
  \/ Mount \/ SpawnByTimeout \/ SpawnByInterval
  \/ AnimateBubbles
  \/ ShowOrHide \/ Leave

Spec == Init /\ [][Next]_vars

\* Effects run, and a visible page gets its frames.
FairSpec == Spec /\ WF_vars(Render) /\ WF_vars(AnimateBubbles)

-----------------------------------------------------------------------------
(* Properties                                                              *)

\* Every variable has its type.
TypeOK ==
  /\ config \in Urls /\ proxies \in Proxies /\ proxyRoutes \in RouteLists
  /\ Len(drawn.labels) \in 0 .. 2 /\ Len(drawn.proxied) = Len(drawn.labels)
  /\ {dirty, visible} \subseteq BOOLEAN /\ page \in {"new", "open", "left"}
  /\ timeouts \in 0 .. 2 /\ uid \in 0 .. MaxBubbles
  /\ \A b \in bubbles :
       /\ b.id \in 0 .. uid - 1 /\ b.dir \in {"ltr", "rtl"}
       /\ b.phase \in 1 .. 3 /\ b.t \in 0 .. Frames - 1
  /\ changes \in 0 .. MaxChanges

\* ResolveProxy, if the server had these tables, would find a proxy for the host.
ServerProxies(host) ==
  \E r \in Range(proxyRoutes) :
     r.proxyId \in proxies /\ host \in ServerMatches[r.dest]

\* The wire to a fixed downstream whose URL names a host and no more is drawn
\* through the proxy exactly when the server would deliver to it through one,
\* whatever table changed last: the regular expression of the diagram agrees with
\* the LIKE of ResolveProxy for letters, dots, * and ?, and no change goes without
\* a redraw.  (A URL with a port is drawn by a label with the port, and need not
\* agree.)
WiresTellRouting ==
  page = "open" /\ ~dirty /\ config # NoUrl =>
    /\ drawn.labels = <<Label(config)>>
    /\ Label(config) = Hostname(config) =>
         drawn.proxied = <<ServerProxies(Hostname(config))>>

\* Every bubble comes to an end while the page stays open and visible, however
\* often the number of its legs changes: bubbles do not pile up.
BubblesEnd ==
  <>[](page = "open" /\ visible) =>
    \A i \in 0 .. MaxBubbles - 1 :
       (\E b \in bubbles : b.id = i) ~> (\A b \in bubbles : b.id # i)
=============================================================================
