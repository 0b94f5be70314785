------------------------------ MODULE MCRelay ------------------------------
(***************************************************************************)
(* Small instances of Relay for TLC: two hosts, two users, and the inputs  *)
(* of each run.  Patterns are given as the texts they match.               *)
(***************************************************************************)
EXTENDS Relay, TLC

CONSTANTS r1, r2

MCRequest == {r1, r2}
OneRequest == {r1}
MCSymmetry == Permutations({r1, r2})
MCUser == {"u", "v"}
MCHost == {"x", "y"}
MCPeer == {"p"}

At(user, host) == [user |-> user, host |-> host, bracketed |-> FALSE]
Literal(user, host) == [user |-> user, host |-> host, bracketed |-> TRUE]

\* "u@x", "*@y", "y", "*"
MCPattern == {"u@x", "*@y", "y", "*"}
MCCovers == [p \in MCPattern |->
  CASE p = "u@x" -> {At("u", "x")}
    [] p = "*@y" -> {At(u, "y") : u \in MCUser}
    [] p = "y"   -> {DomainText(At("u", "y"))}
    [] p = "*"   -> {DownstreamURL} \cup Address
                    \cup {DomainText(a) : a \in Address}]

Mail(from, to) == [post |-> TRUE, from |-> from, to |-> to, body |-> "ok",
                   peer |-> "p"]

\* To one host under both spellings of it, and to another one.
Both  == Mail(At("v", "y"), <<At("u", "x"), Literal("v", "x"), At("u", "y")>>)
ToX   == Mail(At("v", "x"), <<At("u", "x")>>)
ToY   == Mail(At("v", "x"), <<At("v", "y")>>)
Empty == [ToX EXCEPT !.body = "empty"]
Bad   == {[Mail(At("u", "x"), <<At("u", "x")>>) EXCEPT !.post = FALSE],
          Mail(At("u", "x"), <<>>), Empty,
          [ToX EXCEPT !.body = "large"], [ToX EXCEPT !.body = "unreadable"]}

NoRows == <<>>
NoRow == {}
NoMode == {}

Filter(field, pattern, on) == [field |-> field, pattern |-> pattern, enabled |-> on]
Rule(field, pattern, repl, on) ==
  [field |-> field, pattern |-> pattern, replacement |-> repl, enabled |-> on]

\* Two requests at once: two recipients of one host, and one refused early.
SameHost == Mail(At("v", "y"), <<At("u", "x"), Literal("v", "x")>>)
DeliveryMessages == {SameHost, ToY, Empty}

\* Two requests with two groups each.
TwoHosts == Mail(At("v", "y"), <<At("u", "x"), At("u", "y")>>)
BooksMessages == {TwoHosts, ToX} \cup Bad
BooksFilters == <<Filter("mail_to", "*@y", TRUE)>>

\* One request to two hosts, or to one that a rule changes into the other: u@x
\* moves to y, senders of y become u@x, and a disabled rule does nothing.
FanoutMessages == {Both, ToX, ToY} \cup Bad
FanoutRules == <<Rule("mail_to", "u@x", At("u", "y"), TRUE),
                 Rule("mail_from", "*@y", At("u", "x"), TRUE),
                 Rule("mail_to", "*@y", At("v", "x"), FALSE)>>

\* The admin toggles the mode and edits both tables while two messages, one a
\* filter matches and one it does not, are handled.  Static routing.
PolicyMessages == {ToX, ToY}
PolicyFilterRows == {Filter("domain", "y", TRUE), Filter("domain", "y", FALSE)}
PolicyRuleRows == {Rule("mail_to", "*@y", At("u", "x"), TRUE)}
PolicyFilters == <<Filter("domain", "y", TRUE)>>

\* A rule that rewrites the configured downstream URL.
DownstreamRules == <<Rule("downstream", "*", At("u", "y"), TRUE)>>
=============================================================================
