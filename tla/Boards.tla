--------------------------------- MODULE Boards ---------------------------------
(***************************************************************************)
(* The site crawlers (app/services/crawlers) and the key each derives for a *)
(* posting, while the board they read changes: postings appear, disappear, *)
(* are pinned and unpinned, and pages fail to load or to parse.            *)
(*                                                                         *)
(* One board is crawled again and again, one crawl at a time (crawls that   *)
(* overlap are the subject of CrawlTask).  The boards themselves are not in *)
(* the repository: how they number and order postings is described by       *)
(* `style`, and the crawlers are translated from their source.             *)
(***************************************************************************)
EXTENDS Naturals, FiniteSets

CONSTANTS
    Crawlers,      \* crawlers under study: the college codes of COLLEGE_CODE_TO_MODULE
    Styles,        \* boards under study, see Style
    Modes,         \* "sync": crawl_college_sync, "async": crawl_college
    Posts,         \* postings
    IdOf,          \* IdOf[p]: articleNo or idx parameter of p's URL, if it has one
    BoxOf,         \* BoxOf[p]: box of the UIC news page that shows p
    PageSize,      \* ordinary rows on the first page of a board, 10 for engineering
    BoxSize,       \* links taken per box of the UIC news page, 5 in the code
    MaxCrawls      \* bound: crawls of the board

Codes == {"engineering", "science", "medicine", "ai", "glc", "underwood",
          "business"}

(* renumbers: a displayed number counts the postings still there, so that a  *)
(* removal shifts the numbers above it; otherwise it is given once for ever. *)
(* repeats: a pinned posting is shown a second time among the ordinary rows. *)
(* bare: the postings whose URLs, distinct as they are, name no articleNo or *)
(* idx and share their path.                                                 *)
Style == [renumbers : BOOLEAN, repeats : BOOLEAN, bare : SUBSET Posts]

ASSUME BoardsOK ==
    /\ Crawlers \subseteq Codes
    /\ Styles \subseteq Style
    /\ Modes \subseteq {"sync", "async"}
    /\ IdOf \in [Posts -> Nat \ {0}]
    /\ \A p, q \in Posts : IdOf[p] = IdOf[q] => p = q
    /\ BoxOf \in [Posts -> Nat]
    /\ PageSize \in Nat /\ BoxSize \in Nat /\ MaxCrawls \in Nat

VARIABLES
    crawler,   \* the crawler module, never changes
    style,     \* the board's style, never changes
    born,      \* born[p]: 0, or the serial number p got when it was posted
    count,     \* postings made so far
    up,        \* postings now on the board
    pinned,    \* those of them that are pinned ("notice" instead of a number)
    mode,      \* the function that crawls, or "idle"
    links,     \* links still to scrape: number (0: none) and posting
    batch,     \* payloads of this crawl: the list `notices`
    read,      \* history: postings whose complete page this crawl has read
    rows,      \* the college's rows of table notices: key, posting, page stored
    crawls     \* crawls so far, to bound them

boardVars == <<born, count, up, pinned>>
crawlVars == <<mode, links, batch, read, rows, crawls>>
fixedVars == <<crawler, style>>
vars == <<crawler, style, born, count, up, pinned, mode, links, batch, read,
          rows, crawls>>

Init ==
    /\ crawler \in Crawlers
    /\ style \in Styles
    /\ born = [p \in Posts |-> 0]
    /\ count = 0
    /\ up = {} /\ pinned = {}
    /\ mode = "idle"
    /\ links = {} /\ batch = {} /\ read = {}
    /\ rows = {}
    /\ crawls = 0
-------------------------------------------------------------------------------
(***************************************************************************)
(* The board.                                                              *)
(***************************************************************************)

Publish(p) ==
    /\ born[p] = 0
    /\ count' = count + 1
    /\ born' = [born EXCEPT ![p] = count + 1]
    /\ up' = up \union {p}
    /\ UNCHANGED <<fixedVars, pinned, crawlVars>>

Remove(p) ==
    /\ p \in up
    /\ up' = up \ {p}
    /\ pinned' = pinned \ {p}
    /\ UNCHANGED <<fixedVars, born, count, crawlVars>>

Pin(p) ==
    /\ p \in up \ pinned
    /\ pinned' = pinned \union {p}
    /\ UNCHANGED <<fixedVars, born, count, up, crawlVars>>

Unpin(p) ==
    /\ p \in pinned
    /\ pinned' = pinned \ {p}
    /\ UNCHANGED <<fixedVars, born, count, up, crawlVars>>

(* The number displayed beside an ordinary row. *)
Number(p) ==
    IF style.renumbers THEN Cardinality({q \in up : born[q] <= born[p]})
    ELSE born[p]

Newest(S, n) == {p \in S : Cardinality({q \in S : born[q] > born[p]}) < n}

(* The ordinary rows of the first page, newest first; the crawlers read no   *)
(* other page.  The pinned postings come before them, without a number.      *)
OrdinaryRows == Newest(IF style.repeats THEN up ELSE up \ pinned, PageSize)
-------------------------------------------------------------------------------
(***************************************************************************)
(* List pages.                                                             *)
(***************************************************************************)

(* Faulty variant: a pinned row passes, and its number is no number. *)
NumberedRowsAndPinned ==
    {[no |-> Number(p), post |-> p] : p \in OrdinaryRows \ pinned}
      \union {[no |-> 0, post |-> p] : p \in pinned}

(* Rows whose first cell is all digits: pinned rows are passed over. *)
NumberedRows == {[no |-> Number(p), post |-> p] : p \in OrdinaryRows}

EngineeringLinks == NumberedRows
ScienceLinks == NumberedRows
AiLinks == NumberedRows
GlcLinks == NumberedRows

(* Faulty variant: every link carries the same "Post" (WORK_LOG.md:48). *)
MedicineLinksPost == {[no |-> 0, post |-> p] : p \in pinned \union OrdinaryRows}

(* The parameter of the URL that names the posting; 0 if it has none. *)
IdInUrl(p) == IF p \in style.bare THEN 0 ELSE IdOf[p]

(* Every item, once per URL, under the articleNo of its URL; 0 stands for    *)
(* the "Post" that every other item gets.                                    *)
MedicineLinks ==
    {[no |-> IdInUrl(p), post |-> p] : p \in pinned \union OrdinaryRows}

(* Every subject, once per URL; a pinned posting is met first in its pinned  *)
(* row, which has no number.                                                 *)
BusinessLinks ==
    {[no |-> IF p \in pinned THEN 0 ELSE Number(p), post |-> p] :
        p \in pinned \union OrdinaryRows}

(* The UIC news page shows boxes of postings; the newest of each are taken. *)
UicNews ==
    {p \in up : p \in Newest({q \in up : BoxOf[q] = BoxOf[p]}, BoxSize)}

(* Faulty variant: the count starts again in every box. *)
PositionInBox(p) ==
    Cardinality({q \in UicNews : BoxOf[q] = BoxOf[p] /\ born[q] >= born[p]})

(* The count goes on from box to box. *)
Position(p) ==
    Cardinality({q \in UicNews : \/ BoxOf[q] < BoxOf[p]
                                 \/ BoxOf[q] = BoxOf[p] /\ born[q] >= born[p]})

UicLinks == {[no |-> Position(p), post |-> p] : p \in UicNews}

(* get_crawler: the get_links function of the college's module. *)
GetLinks ==
    [engineering |-> EngineeringLinks, science |-> ScienceLinks,
     ai |-> AiLinks, glc |-> GlcLinks, medicine |-> MedicineLinks,
     business |-> BusinessLinks, underwood |-> UicLinks][crawler]
-------------------------------------------------------------------------------
(***************************************************************************)
(* Detail pages, as far as the parsers tell them apart:                    *)
(*   "posting"  the posting's page;                                        *)
(*   "noBody"   its title is found, its body is not (a changed template);  *)
(*   "huge"     its body is over the size limit;                           *)
(*   "error"    an error status, with a heading h2 or h3 on the page;      *)
(*   "other"    status 200, another page with a heading (maintenance);     *)
(*   "blank"    status 200, a page with neither (an alert).                *)
(* A parser makes "none" of a page when it finds no title: "title none" and *)
(* an empty title are both rejected by build_notice_payload.  "raise": the *)
(* parser raises RequestException.                                         *)
(***************************************************************************)

PageKinds == {"posting", "noBody", "huge", "error", "other", "blank"}

(* A posting that was removed answers with a page that is not its own. *)
PagesOf(p) == IF p \in up THEN PageKinds ELSE {"error", "other", "blank"}

(* The title is looked up by a class or id only the board's template has; a *)
(* missing body becomes a placeholder text.                                  *)
ByTemplate(page) == IF page \in {"posting", "noBody", "huge"} THEN page ELSE "none"

(* Faulty variant: without a title, any heading will do. *)
ParseAnyHeading(page) ==
    IF page \in {"error", "other"} THEN page ELSE ByTemplate(page)

ParseScience(page) == ByTemplate(page)
ParseMedicine(page) == ByTemplate(page)
ParseComputing(page) == ByTemplate(page)
ParseUic(page) == ByTemplate(page)

(* fetch_html, which only glc uses, stops at an error status and at the      *)
(* size limit.                                                               *)
FetchHtml(page) ==
    IF page = "error" THEN "raise" ELSE IF page = "huge" THEN "tooLarge" ELSE page

(* A page too large gets the placeholder title. *)
ParseGlc(page) ==
    LET got == FetchHtml(page) IN
    IF got = "raise" THEN "raise" ELSE ByTemplate(got)

(* An error status yields no title; otherwise h3 is the second choice. *)
ParseEngineering(page) ==
    IF page = "other" THEN "other" ELSE ByTemplate(page)

(* h2 or h3 is the second choice, whatever the status. *)
ParseBusiness(page) ==
    IF page \in {"error", "other"} THEN page ELSE ByTemplate(page)

(* get_crawler: the scrape_detail function of the college's module. *)
ScrapeDetail(page) ==
    [engineering |-> ParseEngineering(page), science |-> ParseScience(page),
     ai |-> ParseComputing(page), glc |-> ParseGlc(page),
     medicine |-> ParseMedicine(page), business |-> ParseBusiness(page),
     underwood |-> ParseUic(page)][crawler]
-------------------------------------------------------------------------------
(***************************************************************************)
(* One crawl: crawl_college_sync, or crawl_college.                        *)
(***************************************************************************)

(* _external_id_from_url, for a link without a number: the parameter, or     *)
(* what is made of the URL's path, here 0 for all bare URLs of the board.    *)
ExternalIdFromUrl(p) == IdInUrl(p)

(* post.get("no") or _external_id_from_url(detail_url).  Only business has   *)
(* links without a number ("Post" of medicine is one).                       *)
ExternalId(link) ==
    IF link.no = 0 /\ crawler = "business" THEN ExternalIdFromUrl(link.post)
    ELSE link.no

(* Faulty variant: a page without a title is no reason to skip. *)
IsPayloadUntitled(found) == found \notin {"raise", "huge"}

(* build_notice_payload skips a page without title and a body too large; it  *)
(* compares the placeholder for a missing body with the title only, so that  *)
(* WORK_LOG.md:32, which says that such a page is skipped, is not true.      *)
IsPayload(found) == found \notin {"raise", "none", "huge"}

EndCrawl ==
    /\ mode' = "idle"
    /\ links' = {} /\ batch' = {} /\ read' = {}

FetchList(m) ==
    /\ mode = "idle"
    /\ crawls < MaxCrawls
    /\ crawls' = crawls + 1
    /\ GetLinks # {}
    /\ mode' = m
    /\ links' = GetLinks
    /\ UNCHANGED <<fixedVars, boardVars, batch, read, rows>>

(* Faulty variant: external ids already seen are not remembered. *)
ScrapeUnseen(link, page) ==
    LET found == ScrapeDetail(page)
        row == [key |-> ExternalId(link), post |-> link.post, page |-> found]
    IN  /\ mode # "idle"
        /\ link \in links
        /\ page \in PagesOf(link.post)
        /\ found # "raise"
        /\ links' = links \ {link}
        /\ batch' = IF IsPayload(found) THEN batch \union {row} ELSE batch
        /\ read' = IF page = "posting" THEN read \union {link.post} ELSE read
        /\ UNCHANGED <<fixedVars, boardVars, mode, rows, crawls>>

(* One turn of the loop: scrape, build the payload, and drop it if its       *)
(* external id has been seen.                                                *)
Scrape(link, page) ==
    LET found == ScrapeDetail(page)
        row == [key |-> ExternalId(link), post |-> link.post, page |-> found]
    IN  /\ mode # "idle"
        /\ link \in links
        /\ page \in PagesOf(link.post)
        /\ found # "raise"
        /\ links' = links \ {link}
        /\ batch' = IF IsPayload(found) /\ \A b \in batch : b.key # row.key
                    THEN batch \union {row} ELSE batch
        /\ read' = IF page = "posting" THEN read \union {link.post} ELSE read
        /\ UNCHANGED <<fixedVars, boardVars, mode, rows, crawls>>

(* The page times out, or the parser raises and the crawl is synchronous:    *)
(* the loop continues.                                                       *)
SkipLink(link) ==
    /\ mode # "idle"
    /\ link \in links
    /\ links' = links \ {link}
    /\ UNCHANGED <<fixedVars, boardVars, mode, batch, read, rows, crawls>>

(* crawl_college lets any other exception of a detail page through: nothing  *)
(* of the crawl is stored.                                                   *)
AbortAsync ==
    /\ mode = "async"
    /\ links # {}
    /\ EndCrawl
    /\ UNCHANGED <<fixedVars, boardVars, rows, crawls>>

(* content_hash: title and body text.  A page that is not the posting's has  *)
(* the same text whatever the link.                                          *)
ContentHash(row) ==
    IF row.page \in {"posting", "noBody"} THEN <<row.page, row.post>>
    ELSE <<row.page>>

(* Rows the upsert inserts or rewrites: new keys and changed hashes. *)
Written ==
    {b \in batch : \A r \in rows : r.key = b.key => ContentHash(r) # ContentHash(b)}

(* INSERT ... ON CONFLICT (college_id, external_id) DO UPDATE, and commit. *)
Upsert ==
    /\ mode # "idle"
    /\ links = {}
    /\ rows' = {r \in rows : \A b \in Written : b.key # r.key} \union Written
    /\ EndCrawl
    /\ UNCHANGED <<fixedVars, boardVars, crawls>>
-------------------------------------------------------------------------------
Next ==
    \/ \E p \in Posts : Publish(p) \/ Remove(p) \/ Pin(p) \/ Unpin(p)
    \/ \E m \in Modes : FetchList(m)
    \/ \E link \in links :
          SkipLink(link) \/ \E page \in PageKinds : Scrape(link, page)
    \/ AbortAsync
    \/ Upsert

Spec == Init /\ [][Next]_vars
-------------------------------------------------------------------------------
(***************************************************************************)
(* Properties.                                                             *)
(***************************************************************************)

Link == [no : Nat, post : Posts]
StoredKinds == PageKinds \ {"huge", "blank"}
Row == [key : Nat, post : Posts, page : StoredKinds]

(* Every variable has its type; only postings that were made are on the     *)
(* board, in a crawl's hands or in the table.                                *)
TypeOK ==
    /\ crawler \in Crawlers
    /\ style \in Styles
    /\ born \in [Posts -> Nat]
    /\ count \in Nat
    /\ up \subseteq Posts /\ pinned \subseteq up
    /\ mode \in Modes \union {"idle"}
    /\ links \subseteq Link
    /\ batch \subseteq Row
    /\ read \subseteq Posts
    /\ rows \subseteq Row
    /\ crawls \in 0..MaxCrawls
    /\ \A p \in up : born[p] # 0
    /\ \A x \in links \union batch \union rows : born[x.post] # 0

(* Boards whose keys mean one posting for ever: article numbers, if every    *)
(* URL carries one, and displayed numbers that are never reused.             *)
Stable ==
    \/ crawler = "medicine" /\ style.bare = {}
    \/ crawler \in {"engineering", "science", "ai", "glc"} /\ ~style.renumbers

OneRow == \A r, s \in rows : r.post = s.post => r.key = s.key

(* One posting, one row, for the boards with stable keys: repeated crawls,   *)
(* pinning and a second display of a pinned posting do not duplicate it.     *)
OneRowPerPosting == Stable => OneRow

(* On those boards a row never changes its posting, so that the AI result    *)
(* and the calendar entries attached to a row stay about the same notice.    *)
RowKeepsPosting ==
    [][Stable => \A r \in rows : \E s \in rows' : s.key = r.key /\ s.post = r.post]_vars

(* The duplicate check of the loop: no key twice in one statement, which     *)
(* PostgreSQL would refuse, and no key twice in the table.                   *)
NoKeyTwice ==
    /\ \A a, b \in batch : a.key = b.key => a = b
    /\ \A r, s \in rows : r.key = s.key => r = s

(* The keys of one list page are distinct.  On business the number of one    *)
(* posting may equal the idx of another, a pinned one; on medicine bare URLs *)
(* share a key.                                                              *)
KeysApart == crawler # "business" /\ (crawler = "medicine" => style.bare = {})

(* There the duplicate check drops no posting but a repeated one: a posting  *)
(* whose page was read is stored when the crawl commits.                     *)
ReadIsStored ==
    [][mode # "idle" /\ mode' = "idle" /\ links = {} /\ KeysApart
         => \A p \in read : \E r \in rows' : r.post = p]_vars

(* An error or maintenance page is never stored as a notice, except by the   *)
(* two parsers that take a heading for the title: business always, and       *)
(* engineering when the status is 200.                                       *)
ErrorPagesStayOut ==
    \A r \in batch \union rows :
        \/ r.page \in {"posting", "noBody"}
        \/ crawler = "business"
        \/ crawler = "engineering" /\ r.page = "other"

(* CAUTIONS.md:107: crawling again does not store the same notice twice.     *)
(* Stated of crawls that have read the page of every posting on the board:   *)
(* each has just been written under the key it has now.                      *)
NoDuplicateNotice == [][Upsert /\ up \subseteq read => OneRow']_vars
===============================================================================
