----------------------------- MODULE NginxDomains ---------------------------
(***************************************************************************)
(* How the domains whose certificates are checked are found in the files   *)
(* of nginx (nginx_domains.go).  The files are read as lines, without the  *)
(* grammar of nginx: a line is the word it begins with, or "comment", how  *)
(* many braces it opens and closes, and what follows the word.             *)
(***************************************************************************)
EXTENDS Integers, Sequences

Line(word, opens, closes, args) ==
  [word |-> word, opens |-> opens, closes |-> closes, args |-> args]

\* isValidSSLDomain, by a name of each class it turns down: the placeholder, the
\* local host, a wildcard, an address, a name without a dot.
NotDomains == {"_", "localhost", "*.example.org", "192.0.2.1", "intranet"}

\* A listen directive with 443 or ssl in it.
IsTLS(args) == args \cap {"443", "ssl"} # {}

NoBlock == [hasSSL |-> FALSE, serverNames |-> {}]

\* Where the scanner is: in how many braces, in which server block, and in how many
\* braces that began; and the blocks that have ended.
Outside == [depth |-> 0, inside |-> FALSE, startDepth |-> -1, current |-> NoBlock, blocks |-> {}]

AtTheTop(depth, startDepth) == depth <= 0

\* The line that brings the braces back to where the block began ends it.
Ends(depth, startDepth) == depth <= startDepth

\* What a line says of the server block it is in.
Parsed(block, line) ==
  CASE line.word = "listen" -> [block EXCEPT !.hasSSL = @ \/ IsTLS(line.args)]
    [] line.word = "server_name" -> [block EXCEPT !.serverNames = @ \cup line.args]
    [] OTHER -> block

\* The word server begins a block only if a brace follows it: in an upstream it is
\* the address of one.
Scanned(s, line) ==
  LET begins == line.word = "server" /\ line.opens > 0
      depth == s.depth + line.opens - line.closes
      startDepth == IF begins THEN s.depth ELSE s.startDepth
      block == Parsed(IF begins THEN NoBlock ELSE s.current, line)
  IN IF line.word = "comment" THEN s
     ELSE IF ~ (begins \/ s.inside) THEN [s EXCEPT !.depth = depth]
     ELSE IF Ends(depth, startDepth)
          THEN [Outside EXCEPT !.depth = depth, !.blocks = s.blocks \cup {block}]
          ELSE [s EXCEPT !.depth = depth, !.inside = TRUE, !.startDepth = startDepth,
                         !.current = block]

\* collectSSLDomains
SSLDomainsOf(blocks) == (UNION {b.serverNames : b \in {x \in blocks : x.hasSSL}}) \ NotDomains

\* parseNginxDomains
ParseNginxDomains(lines) ==
  LET after[n \in 0 .. Len(lines)] ==
        IF n = 0 THEN Outside ELSE Scanned(after[n - 1], lines[n])
  IN SSLDomainsOf(after[Len(lines)].blocks)
-----------------------------------------------------------------------------
(* What nginx makes of a configuration, and how it is usually written:     *)
(* server blocks, alone in their files or in an http block, with every     *)
(* directive and closing brace on a line of its own and a location before  *)
(* or after them.  A server has domains, and other names, for which there  *)
(* is no certificate to check.                                             *)

Served(servers) == UNION {s.domains : s \in {x \in servers : x.tls}}

Location == <<Line("location", 1, 0, {}), Line("proxy_pass", 0, 0, {}), Line("}", 0, 1, {})>>

\* A commented-out block is not balanced line by line.
Comment == <<Line("comment", 1, 0, {}), Line("comment", 0, 0, {"443"})>>

ServerLines(s) ==
  <<Line("server", 1, 0, {})>>
  \o (IF s.location = "before" THEN Location ELSE << >>)
  \o <<Line("listen", 0, 0, {"80"})>>
  \o (IF s.tls THEN <<Line("listen", 0, 0, {"443", "ssl"})>> ELSE Comment)
  \o <<Line("server_name", 0, 0, s.domains \cup s.others)>>
  \o (IF s.location = "after" THEN Location ELSE << >>)
  \o <<Line("}", 0, 1, {})>>

Upstream ==
  <<Line("upstream", 1, 0, {}), Line("server", 0, 0, {"192.0.2.1"}), Line("}", 0, 1, {})>>

InHTTP(lines) == <<Line("http", 1, 0, {})>> \o lines \o <<Line("}", 0, 1, {})>>

\* The lines of two servers, in one http block, in two, in files of their own, or one
\* in nginx.conf and the other included.
Written(s1, s2) ==
  { InHTTP(Upstream \o ServerLines(s1) \o ServerLines(s2)),
    InHTTP(ServerLines(s1)) \o Upstream \o ServerLines(s2),
    ServerLines(s1) \o InHTTP(Upstream \o ServerLines(s2)),
    ServerLines(s1) \o ServerLines(s2) }

\* In these layouts the domains found are those that are served with TLS: a domain
\* that is not would be critical for ever, as nobody shows a certificate for it.
DomainsAreServed(Servers) ==
  \A s1, s2 \in Servers : \A lines \in Written(s1, s2) :
    ParseNginxDomains(lines) = Served({s1, s2})
=============================================================================
