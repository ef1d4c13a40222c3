---------------------------- MODULE LinkFetcher ----------------------------
(***************************************************************************)
(* src/LinkFetcher.cpp with the parts it drives: HTML_getter (one curl     *)
(* handle), URL_getter and URL_filter (whose results stay in the objects   *)
(* from one page to the next).  One fetcher is used by one thread.  The    *)
(* web answers as it likes, and redirects as it likes: curl follows, with  *)
(* a request for each URL on the way that the fetcher does not see.  URLs  *)
(* are cut at their slashes, as in Links; every URL but the empty one has  *)
(* a scheme and a host, and none a carriage return.  What the parser and   *)
(* the extractor make of a page is a constant here: Page gives it.         *)
(***************************************************************************)
EXTENDS Links

CONSTANTS
    Urls,       \* the URLs that may be asked for
    Detours,    \* where redirects may lead: sequences of URLs, one for each
    Robots,     \* the robots.txt files that sites may have, as sequences of lines
    Pages,      \* the pages
    ElementsOn, \* ElementsOn[html]: the <base> and <a> elements of the page, in order
    TextOn,     \* TextOn[html]: what extract makes of it
    Beginnings, \* pairs of different segments where the first begins the second
    MaxPages    \* bound on the pages that are requested

EmptyUrl == <<Blank>>
NoFile == <<>>

\* getline leaves a carriage return on a line.  Only the first character of an agent's
\* name is looked at, so that it matters for rules alone.  Other lines are empty ones,
\* comments, other fields and spellings.
Rules == [path : Seq(Segments) \ {<<>>}, cr : BOOLEAN]
Lines ==
    [k : {"agent"}, who : STRING] \cup [k : {"disallow"}, rule : Rules] \cup [k : {"other"}]

\* HTML_getter::get returns a body only if curl succeeds and the status is 200, and
\* the body may be empty all the same.
Replies(files) == files \cup {NoFile}

ASSUME WebAssumption ==
    /\ \A url \in Urls : url \in Seq(Segments) /\ IsAbsolute(url)
    /\ Detours \subseteq Seq(Seq(Segments)) /\ <<>> \in Detours
    /\ Robots \subseteq Seq(Lines)
    /\ NoFile \notin Pages /\ MaxPages \in Nat

ASSUME ParserAssumption ==
    /\ ElementsOn \in [Replies(Pages) -> Seq(Elements)] /\ ElementsOn[NoFile] = <<>>
    /\ \A html \in Pages :
          TextOn[html] = [title |-> TextOn[html].title, content |-> TextOn[html].content]

VARIABLES
    robotsRules,    \* by domain, for the domains met
    urls,           \* ugetter->urls
    filtered_url,   \* ufilter->filtered_url
    requests,       \* history: what was asked for, in order, and where redirects led
    served,         \* history: the robots.txt lines that each domain served
    last            \* history: the last call, the page that came and the answer

fetcherVars == <<robotsRules, urls, filtered_url, requests, served, last>>

NoAnswer == [ok |-> FALSE, links |-> {}, title |-> <<>>, content |-> <<>>]

FetcherInit ==
    /\ robotsRules = <<>>
    /\ urls = <<>>
    /\ filtered_url = {}
    /\ requests = <<>>
    /\ served = <<>>
    /\ last = [call |-> "none", url |-> EmptyUrl, page |-> NoFile, answer |-> NoAnswer]

-----------------------------------------------------------------------------
(* robots.txt *)

extractDomain(url) == SubSeq(url, 1, 3)
PathOf(url) == IF Len(url) = 3 THEN <<Blank, Blank>> ELSE <<Blank>> \o SubSeq(url, 4, Len(url))

\* path.find(rule) == 0, a prefix of the path as a string.
Begins(rule, path) ==
    /\ Len(rule) <= Len(path)
    /\ Front(rule) = SubSeq(path, 1, Len(rule) - 1)
    /\ LET a == Last(rule)
           b == path[Len(rule)]
       IN  a \in {Blank, b} \/ <<a, b>> \in Beginnings

\* Lines count from an agent line for * to the next agent line.
CollectFromFirst(on, line) == on \/ (line.k = "agent" /\ line.who = "*")
Collecting(on, line) == IF line.k = "agent" THEN line.who = "*" ELSE on

LineRead(s, line) ==
    LET on == Collecting(s.on, line)
    IN  [on |-> on,
         rules |-> IF on /\ line.k = "disallow" THEN Append(s.rules, line.rule) ELSE s.rules]

RulesIn(lines) ==
    LET after[n \in 0..Len(lines)] ==
            IF n = 0 THEN [on |-> FALSE, rules |-> <<>>] ELSE LineRead(after[n - 1], lines[n])
    IN  after[Len(lines)].rules

\* With its carriage return, a rule is neither "/" nor found in a path.
Matches(rule, path) == ~rule.cr /\ (rule.path = <<Blank, Blank>> \/ Begins(rule.path, path))

Disallows(rules, url) == \E i \in DOMAIN rules : Matches(rules[i], PathOf(url))

\* robotsRules.count: parseRobots has been called for the domain, whatever came.
Known(domain) == domain \in DOMAIN robotsRules

-----------------------------------------------------------------------------
(* Requests. *)

\* One get with CURLOPT_FOLLOWLOCATION: a request, and one for each URL of way, where
\* redirects lead; isAllowed is not asked about those.
get(reqs, to, what) == {reqs \o <<[to |-> to, what |-> what, way |-> way]>> : way \in Detours}

\* isAllowed, with a request for the robots.txt of a domain that is new, and then the
\* request for the page if it is allowed.
Admit(url, allowed) ==
    LET domain == extractDomain(url)
        Filed(f, x) == [d \in DOMAIN f \cup {domain} |-> IF d = domain THEN x ELSE f[d]]
    IN  /\ url # EmptyUrl
        /\ \/ Known(domain) /\ UNCHANGED <<robotsRules, served>>
           \/ /\ ~Known(domain)
              /\ \E lines \in Replies(Robots) :
                    robotsRules' = Filed(robotsRules, RulesIn(lines)) /\ served' = Filed(served, lines)
        /\ allowed <=> ~Disallows(robotsRules'[domain], url)
        /\ \E asked \in IF Known(domain) THEN {requests} ELSE get(requests, domain, "robots") :
              requests' \in IF allowed THEN get(asked, url, "page") ELSE {asked}

\* ugetter->get appends and filtrate inserts: both lists are cleared first.
KeptUrls == urls
ClearedUrls == <<>>

GetLinks(html, url) ==
    /\ urls' = ClearedUrls \o collect_links(ElementsOn[html], url)
    /\ filtered_url' = filtrate(urls')

Answered(call, url, page, answer) ==
    last' = [call |-> call, url |-> url, page |-> page, answer |-> answer]

\* The url is empty, or robots.txt disallows it.
RefuseUrl(call, url) ==
    /\ \/ url = EmptyUrl /\ UNCHANGED <<robotsRules, served, requests>>
       \/ Admit(url, FALSE)
    /\ Answered(call, url, NoFile, NoAnswer)
    /\ UNCHANGED <<urls, filtered_url>>

\* get_all_info where the page does not come, or comes empty.
MissPage(url) ==
    /\ Admit(url, TRUE)
    /\ Answered("info", url, NoFile, NoAnswer)
    /\ UNCHANGED <<urls, filtered_url>>

\* get_all_info with a page.
TakePage(url) ==
    /\ Admit(url, TRUE)
    /\ \E html \in Pages :
          /\ GetLinks(html, url)
          /\ Answered("info", url, html,
                [ok |-> TRUE, links |-> filtered_url',
                 title |-> TextOn[html].title, content |-> TextOn[html].content])

\* get_all_urls takes what came for a page, also if nothing did.
TakeLinks(url) ==
    /\ Admit(url, TRUE)
    /\ \E html \in Replies(Pages) :
          /\ GetLinks(html, url)
          /\ Answered("urls", url, html, [NoAnswer EXCEPT !.links = filtered_url'])

FetcherNext ==
    /\ Cardinality({i \in DOMAIN requests : requests[i].what = "page"}) < MaxPages
    /\ \E url \in Urls \cup {EmptyUrl} :
          \/ \E call \in {"info", "urls"} : RefuseUrl(call, url)
          \/ MissPage(url) \/ TakePage(url) \/ TakeLinks(url)

FetcherSpec == FetcherInit /\ [][FetcherNext]_fetcherVars

-----------------------------------------------------------------------------
(* Properties. *)

IsRule(line) == line.k = "disallow"

\* The agent line i heads the rule at j: agent lines may follow each other, and a rule
\* ends their list (RFC 9309).
Heads(lines, i, j) ==
    /\ i < j /\ lines[i].k = "agent" /\ IsRule(lines[j])
    /\ ~\E k \in i..j, l \in i..j : k < l /\ IsRule(lines[k]) /\ lines[l].k = "agent"

\* The rules that stand for this crawler.  Of what the file asks of every crawler,
\* two kinds are missing: rules with a carriage return, and rules in whose list another
\* agent comes after "*".  One kind is more than it asks: an empty path begins every path.
Standing(lines) ==
    {lines[j].rule.path : j \in {k \in DOMAIN lines :
        /\ IsRule(lines[k]) /\ ~lines[k].rule.cr
        /\ \E i \in DOMAIN lines :
              /\ lines[i].k = "agent" /\ lines[i].who = "*" /\ Heads(lines, i, k)
              /\ \A l \in DOMAIN lines : Heads(lines, l, k) => l <= i}}

PagesAsked == {requests[i].to : i \in {j \in DOMAIN requests : requests[j].what = "page"}}
AsksFor(domain) ==
    {j \in DOMAIN requests : requests[j].to = domain /\ requests[j].what = "robots"}

\* Whatever the order of the lines of a robots.txt, the fetcher asks for a page exactly
\* if no rule that stands in it begins the page's path; and each robots.txt is asked
\* for once and before the first page of its site.  This is about the URLs that the
\* fetcher asks for: a redirect leads curl on to any other, also a disallowed one, and
\* nothing bounds how many requests that takes (LinkFetcher.cpp:38-89, HTML_getter.cpp:34).
RobotsObeyed ==
    /\ \A i \in DOMAIN requests :
          LET asks == AsksFor(extractDomain(requests[i].to))
          IN  Cardinality(asks) = 1 /\ \A j \in asks : j <= i
    /\ \A url \in (PagesAsked \cup {last.url}) \ {EmptyUrl} :
          url \in PagesAsked <=>
              ~\E path \in Standing(served[extractDomain(url)]) : Begins(path, PathOf(url))

\* The URLs that the page may be read at: the one that was asked for and, if redirects
\* stayed on the site, where they led.
Origin == LET way == Last(requests).way IN IF way = <<>> THEN last.url ELSE Last(way)
SameSite(u, v) == u[1] = v[1] /\ u[3] = v[3]
ReadAt == {last.url} \cup {u \in IF last.page = NoFile THEN {} ELSE {Origin} : SameSite(u, last.url)}

\* An answer tells of its own page and of nothing that was fetched before it, though
\* the lists it is made from live on in the fetcher: its links are links of the page
\* where they lead, and all that name their scheme or have one leading slash, also if
\* a redirect within the site led to the page (one to another site makes its links
\* wrong: the URL that was asked for is their base); its title and text are those of
\* the page, and a call without a page answers nothing (LinkFetcher.cpp:93-139).
AnswerIsOfItsPage ==
    last.call # "none" =>
        /\ last.answer.ok <=> last.call = "info" /\ last.page # NoFile
        /\ AllResolvable(ElementsOn[last.page], last.url) =>
              \A url \in ReadAt : LinksOfPage(last.answer.links, ElementsOn[last.page], url)
        /\ [title |-> last.answer.title, content |-> last.answer.content] =
              IF last.answer.ok THEN TextOn[last.page] ELSE [title |-> <<>>, content |-> <<>>]
=============================================================================
