------------------------------ MODULE UrlKeys ------------------------------
(***************************************************************************)
(* normalize_url, from which the keys are made that tell whether a URL is  *)
(* new: a page and the ways authors and clients of Argus may spell its     *)
(* URL.  Seeds are normalized once.  Links are joined with the URL of the  *)
(* page they are on and normalized twice, by extract_links and by the      *)
(* crawler that queues them.                                               *)
(*                                                                         *)
(* A path is the sequence of its segments; "/a/" ends in an empty one.  A  *)
(* query is the sequence of its pairs, numbered in the order they sort in. *)
(***************************************************************************)
EXTENDS Integers, Sequences

CONSTANTS Names,      \* of path segments
          Paths,      \* the paths of pages, sequences of names
          Queries,    \* the queries of pages, sorted sequences of numbers
          MaxSlashes, \* bound: slashes at the end of a path
          Bases       \* the pages whose links are compared with seeds

VARIABLES page,   \* the page: scheme, port, path, query
          url     \* the URL as somebody writes it
urlVars == <<page, url>>

Empty == "empty"
Segments == [name : Names \cup {Empty}, params : BOOLEAN]
Slash == [name |-> Empty, params |-> FALSE]
NoPort == 0
DefaultPort == [http |-> 80, https |-> 443]

ASSUME NamesAssumption == Empty \notin Names
ASSUME PathsAssumption == Paths \subseteq Seq(Names)
ASSUME QueriesAssumption ==
  \A q \in Queries : /\ q \in Seq(Nat)
                     /\ \A i, j \in DOMAIN q : i < j => q[i] <= q[j]

Pages == [scheme : {"http", "https"}, port : {80, 443, 8080}, path : Paths, query : Queries]
ASSUME BasesAssumption == Bases \subseteq Pages

\* bare: without a scheme, "example.com/path"; upper: capitals in the scheme
\* or the host.  The host is the same in all of them.
Spelled(p) ==
  [scheme |-> p.scheme, bare |-> FALSE, upper |-> FALSE, port |-> p.port,
   path |-> [i \in DOMAIN p.path |-> [name |-> p.path[i], params |-> FALSE]],
   query |-> p.query, fragment |-> FALSE]
-----------------------------------------------------------------------------
\* urlparse splits the parameters off the last segment; none are put back.
KeepParams(path) == path
WithoutParams(path) == IF path = <<>> THEN path ELSE [path EXCEPT ![Len(path)].params = FALSE]

\* path.rstrip("/"), but the path "/" stays.
StripOne(path) == IF path # <<>> /\ path # <<Slash>> /\ path[Len(path)] = Slash
                  THEN SubSeq(path, 1, Len(path) - 1) ELSE path
StripSlashes(path) ==
  IF path = <<Slash>> THEN path
  ELSE SubSeq(path, 1, CHOOSE n \in 0..Len(path) :
                         /\ n > 0 => path[n] # Slash
                         /\ \A i \in n + 1..Len(path) : path[i] = Slash)

\* A port is kept unless it is the scheme's own.
EveryPort(scheme, port) == port
PortKept(scheme, port) == IF port = DefaultPort[scheme] THEN NoPort ELSE port

\* sorted(params): the pairs rearranged so that they are in order.
QueryAsWritten(query) == query
Rearrangements(query) ==
  {p \in [DOMAIN query -> DOMAIN query] : \A i \in DOMAIN query : \E k \in DOMAIN query : p[k] = i}
SortedQuery(query) ==
  LET p == CHOOSE r \in Rearrangements(query) :
             \A i, k \in DOMAIN query : i < k => query[r[i]] <= query[r[k]]
  IN  [i \in DOMAIN query |-> query[p[i]]]

\* normalize_url
Normalize(u) ==
  LET scheme == IF u.bare THEN "http" ELSE u.scheme IN
  [scheme |-> scheme, bare |-> FALSE, upper |-> FALSE, port |-> PortKept(scheme, u.port),
   path |-> StripSlashes(WithoutParams(u.path)), query |-> SortedQuery(u.query),
   fragment |-> FALSE]

\* urljoin takes a URL that is bare and has no port for a relative reference:
\* its host is a name in the directory of the page base that it is on, and its
\* empty segments are dropped, but a last one.  It leaves any other as it is,
\* for "example.com:80/path" reads as if it had a scheme, "example.com".
Host == "host"
Relative(u) == u.bare /\ u.port = NoPort
Directory(path) == IF path = <<>> THEN path ELSE SubSeq(path, 1, Len(path) - 1)
NotSlash(segment) == segment # Slash
Compact(path) == SelectSeq(SubSeq(path, 1, Len(path) - 1), NotSlash) \o <<path[Len(path)]>>
Joined(base, u) ==
  IF ~Relative(u) THEN u
  ELSE [Spelled(base) EXCEPT
          !.path = Directory(@) \o Compact(<<[name |-> Host, params |-> FALSE]>> \o u.path),
          !.query = u.query, !.fragment = u.fragment]

\* The keys of a seed and of a link on the page base that one string spells.
SeedKey(u) == Normalize(u)
LinkKey(base, u) == Normalize(Normalize(Joined(base, u)))
-----------------------------------------------------------------------------
UrlInit == page \in Pages /\ url = Spelled(page)

\* Other spellings, by what may be in a document or a request.
Respell(u) == url' = u /\ UNCHANGED page
Capitals == ~url.upper /\ Respell([url EXCEPT !.upper = TRUE])
Fragment == ~url.fragment /\ Respell([url EXCEPT !.fragment = TRUE])
DropPort == url.port = DefaultPort[url.scheme] /\ Respell([url EXCEPT !.port = NoPort])
DropScheme == url.scheme = "http" /\ ~url.bare /\ Respell([url EXCEPT !.bare = TRUE])
AddSlash ==
  /\ Len(url.path) < Len(page.path) + MaxSlashes
  /\ Respell([url EXCEPT !.path = Append(@, Slash)])
ReverseQuery == Len(url.query) = 2 /\ Respell([url EXCEPT !.query = <<@[2], @[1]>>])

\* Parameters on the last segment, as in "/a;v=1".
AddParams == /\ url.path # <<>> /\ ~url.path[Len(url.path)].params
             /\ Respell([url EXCEPT !.path[Len(url.path)].params = TRUE])

UrlNext == \/ Capitals \/ Fragment \/ DropPort \/ DropScheme \/ AddSlash
           \/ ReverseQuery \/ AddParams
UrlSpec == UrlInit /\ [][UrlNext]_urlVars
-----------------------------------------------------------------------------
\* The types of the page, of its spellings and of their keys, which never
\* have the scheme's own port or a query out of order.
UrlTypeOK ==
  /\ page \in Pages
  /\ \A u \in {url, SeedKey(url)} :
       /\ u.scheme \in {"http", "https"} /\ u.port \in {NoPort, 80, 443, 8080}
       /\ u.path \in Seq(Segments) /\ u.query \in Seq(Nat)
  /\ LET k == SeedKey(url) IN
       /\ k.port # DefaultPort[k.scheme] /\ ~k.bare /\ ~k.upper /\ ~k.fragment
       /\ \A i \in 1..Len(k.query) - 1 : k.query[i] <= k.query[i + 1]

HasParams(u) == \E i \in DOMAIN u.path : u.path[i].params

\* What the dedup key is for: all spellings of a page have one key, and the
\* page can be told from it.  Not so, in the code: "/" after the host is a
\* page of its own, and parameters on the last segment are lost.
PageNamed(key) ==
  [scheme |-> key.scheme,
   port |-> IF key.port = NoPort THEN DefaultPort[key.scheme] ELSE key.port,
   path |-> [i \in DOMAIN key.path |-> key.path[i].name], query |-> key.query]
KeyNamesPage ==
  ~HasParams(url) /\ url.path # <<Slash>> =>
    SeedKey(url) = SeedKey(Spelled(page)) /\ PageNamed(SeedKey(url)) = page

\* A URL submitted as a seed and found as a link, on whatever page, has one key
\* in its job, so that it is crawled once: joining and normalizing again change
\* nothing.  Not so, in the code, for "example.com/a", which normalize_url takes
\* for a host and urljoin for a path, and where slashes hide parameters:
\* "/a;v=1/" becomes "/a;v=1", then "/a".
HiddenParams(u) == \E i \in 1..Len(u.path) - 1 :
                     /\ u.path[i].params
                     /\ \A k \in i + 1..Len(u.path) : u.path[k].name = Empty
SeedsAndLinksAgree ==
  ~Relative(url) /\ ~HiddenParams(url) =>
    \A base \in Bases : SeedKey(url) = LinkKey(base, url)
=============================================================================
