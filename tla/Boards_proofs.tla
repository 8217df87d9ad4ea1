----------------------------- MODULE Boards_proofs -----------------------------
(***************************************************************************)
(* Proofs about Boards, for every board, page size and number of crawls:   *)
(* no key twice, what was read is stored, and on boards with stable keys   *)
(* one row per posting and one posting per row.                            *)
(***************************************************************************)
EXTENDS Boards, FiniteSetTheorems, TLAPS

(* The key a board with stable keys gives to a posting. *)
StableKey(p) == IF crawler = "medicine" THEN IdOf[p] ELSE born[p]

(* Serial numbers are never used twice. *)
SerialsUnique ==
    /\ count \in Nat
    /\ born \in [Posts -> Nat]
    /\ \A p \in Posts : born[p] <= count
    /\ \A p, q \in Posts : born[p] # 0 /\ born[p] = born[q] => p = q

(* Whatever is listed, held or stored belongs to a posting that was made. *)
Posted ==
    /\ crawler \in Codes
    /\ up \subseteq Posts /\ pinned \subseteq up
    /\ \A p \in up : born[p] # 0
    /\ \A x \in links \union batch \union rows : x.post \in Posts /\ born[x.post] # 0

(* On a board with stable keys, everything is filed under its posting's key. *)
Filed ==
    Stable => /\ \A link \in links : link.no = StableKey(link.post)
              /\ \A b \in batch \union rows : b.key = StableKey(b.post)

(* The inductive invariant behind OneRowPerPosting and RowKeepsPosting. *)
KeysInv == SerialsUnique /\ Posted /\ Filed
-------------------------------------------------------------------------------
(***************************************************************************)
(* What the list functions return.                                         *)
(***************************************************************************)

(* A list page shows postings of the board only, and on a board with stable  *)
(* keys it gives each its own key, however many rows it has.                 *)
LEMMA ListedLinks ==
    ASSUME crawler \in Codes, pinned \subseteq up
    PROVE  \A link \in GetLinks :
              /\ link.post \in up
              /\ Stable => link.no = StableKey(link.post)
<1>1. OrdinaryRows \subseteq up
  BY DEF OrdinaryRows, Newest
<1>2. \A link \in NumberedRows :
        /\ link.post \in up
        /\ ~style.renumbers => link.no = born[link.post]
  <2>1. ASSUME NEW p \in OrdinaryRows, ~style.renumbers PROVE Number(p) = born[p]
    BY <2>1 DEF Number
  <2>2. SUFFICES ASSUME NEW p \in OrdinaryRows
                 PROVE  LET link == [no |-> Number(p), post |-> p] IN
                          /\ link.post \in up
                          /\ ~style.renumbers => link.no = born[link.post]
    BY DEF NumberedRows
  <2>3. QED
    BY <1>1, <2>1
<1>3. \A link \in MedicineLinks :
        /\ link.post \in up
        /\ style.bare = {} => link.no = IdOf[link.post]
  BY <1>1 DEF MedicineLinks, IdInUrl
<1>4. \A link \in BusinessLinks \union UicLinks : link.post \in up
  <2>1. \A link \in BusinessLinks : link.post \in up
    BY <1>1 DEF BusinessLinks
  <2>2. \A link \in UicLinks : link.post \in up
    <3>1. SUFFICES ASSUME NEW p \in UicNews
                   PROVE  [no |-> Position(p), post |-> p].post \in up
      BY DEF UicLinks
    <3>2. QED
      BY DEF UicNews
  <2>3. QED
    BY <2>1, <2>2
<1>5. CASE crawler \in {"engineering", "science", "ai", "glc"}
  <2>1. GetLinks = NumberedRows
    BY <1>5 DEF GetLinks, EngineeringLinks, ScienceLinks, AiLinks, GlcLinks
  <2>2. QED
    BY <1>2, <1>5, <2>1 DEF Stable, StableKey
<1>6. CASE crawler = "medicine"
  BY <1>3, <1>6 DEF GetLinks, Stable, StableKey
<1>7. CASE crawler \in {"business", "underwood"}
  <2>1. GetLinks \in {BusinessLinks, UicLinks} /\ ~Stable
    BY <1>7 DEF GetLinks, Stable
  <2>2. QED
    BY <1>4, <2>1
<1>8. QED
  BY <1>5, <1>6, <1>7 DEF Codes

(* Two postings never have the same stable key. *)
LEMMA StableKeysDiffer ==
    ASSUME SerialsUnique, NEW p \in Posts, NEW q \in Posts,
           born[p] # 0, StableKey(p) = StableKey(q)
    PROVE  p = q
BY BoardsOK DEF SerialsUnique, StableKey
-------------------------------------------------------------------------------
(***************************************************************************)
(* Stable keys.                                                            *)
(***************************************************************************)

LEMMA KeysInit == Init => KeysInv
BY BoardsOK DEF Init, KeysInv, SerialsUnique, Posted, Filed

(* A new serial is larger than every serial given before. *)
LEMMA PublishKeepsKeys ==
    ASSUME KeysInv, NEW p \in Posts, Publish(p)
    PROVE  KeysInv'
<1> USE DEF KeysInv, Publish
<1>1. SerialsUnique'
  BY DEF SerialsUnique
<1>2. \A q \in Posts : born[q] # 0 => born'[q] = born[q]
  BY DEF SerialsUnique
<1>3. Posted'
  BY <1>2 DEF SerialsUnique, Posted, fixedVars, crawlVars
<1>4. Filed'
  BY <1>2 DEF Posted, Filed, Stable, StableKey, fixedVars, crawlVars
<1>5. QED
  BY <1>1, <1>3, <1>4

(* The step of any operation but a publication leaves the serials alone; it  *)
(* preserves the invariant if what it adds to the crawl or the table comes   *)
(* from the list page or from there.                                         *)
LEMMA BoardStepKeepsKeys ==
    ASSUME KeysInv, NEW p \in Posts, Remove(p) \/ Pin(p) \/ Unpin(p)
    PROVE  KeysInv'
<1>1. UNCHANGED <<crawler, style, born, count, links, batch, rows>>
  BY DEF Remove, Pin, Unpin, fixedVars, crawlVars
<1>2. up' \subseteq up /\ pinned' \subseteq up'
  BY DEF KeysInv, Posted, Remove, Pin, Unpin, crawlVars, fixedVars
<1>3. QED
  BY <1>1, <1>2 DEF KeysInv, SerialsUnique, Posted, Filed, Stable, StableKey

LEMMA ScrapeKeepsKeys ==
    ASSUME KeysInv, NEW link \in links, NEW page, Scrape(link, page)
    PROVE  KeysInv'
<1> DEFINE row == [key |-> ExternalId(link), post |-> link.post,
                   page |-> ScrapeDetail(page)]
<1>1. /\ UNCHANGED <<crawler, style, born, count, up, pinned, rows>>
      /\ links' \subseteq links /\ batch' \subseteq batch \union {row}
  BY DEF Scrape, fixedVars, boardVars
<1>2. row.post \in Posts /\ born[row.post] # 0
  BY DEF KeysInv, Posted
<1>3. Stable => row.key = StableKey(row.post)
  <2>1. Stable => ExternalId(link) = link.no
    BY DEF Stable, ExternalId
  <2>2. QED
    BY <2>1 DEF KeysInv, Filed
<1>4. Posted'
  BY <1>1, <1>2 DEF KeysInv, Posted
<1>5. Filed'
  <2> SUFFICES ASSUME Stable PROVE /\ \A x \in links' : x.no = StableKey(x.post)
                                   /\ \A b \in batch' \union rows' : b.key = StableKey(b.post)
    BY <1>1 DEF Filed, Stable, StableKey
  <2>1. QED
    BY <1>1, <1>3 DEF KeysInv, Filed
<1>6. QED
  BY <1>1, <1>4, <1>5 DEF KeysInv, SerialsUnique

LEMMA KeysStep ==
    ASSUME KeysInv, [Next]_vars
    PROVE  KeysInv'
<1>1. CASE UNCHANGED vars
  BY <1>1 DEF vars, KeysInv, SerialsUnique, Posted, Filed, Stable, StableKey
<1>2. ASSUME NEW p \in Posts, Publish(p) PROVE KeysInv'
  BY <1>2, PublishKeepsKeys
<1>3. ASSUME NEW p \in Posts, Remove(p) \/ Pin(p) \/ Unpin(p) PROVE KeysInv'
  BY <1>3, BoardStepKeepsKeys
<1>4. ASSUME NEW m \in Modes, FetchList(m) PROVE KeysInv'
  <2>1. \A link \in GetLinks :
          link.post \in up /\ (Stable => link.no = StableKey(link.post))
    BY ListedLinks DEF KeysInv, Posted
  <2>2. /\ UNCHANGED <<crawler, style, born, count, up, pinned, batch, rows>>
        /\ links' = GetLinks
    BY <1>4 DEF FetchList, fixedVars, boardVars
  <2>3. QED
    BY <2>1, <2>2 DEF KeysInv, SerialsUnique, Posted, Filed, Stable, StableKey
<1>5. ASSUME NEW link \in links, NEW page \in PageKinds, Scrape(link, page)
      PROVE  KeysInv'
  BY <1>5, ScrapeKeepsKeys
<1>6. CASE (\E link \in links : SkipLink(link)) \/ AbortAsync \/ Upsert
  <2>1. /\ UNCHANGED <<crawler, style, born, count, up, pinned>>
        /\ links' \subseteq links /\ batch' \subseteq batch
        /\ rows' \subseteq rows \union batch
    BY <1>6 DEF SkipLink, AbortAsync, Upsert, EndCrawl, Written, fixedVars, boardVars
  <2>2. QED
    BY <2>1 DEF KeysInv, SerialsUnique, Posted, Filed, Stable, StableKey
<1>7. QED
  BY <1>1, <1>2, <1>3, <1>4, <1>5, <1>6 DEF Next

THEOREM KeysCorrect == Spec => []KeysInv
<1>1. KeysInv /\ [Next]_vars => KeysInv'
  BY KeysStep
<1>2. QED
  BY KeysInit, <1>1, PTL DEF Spec

(* One posting, one row: for every board with stable keys, whatever is       *)
(* pinned, removed or misread between the crawls.                            *)
THEOREM OneRowForEver == Spec => []OneRowPerPosting
<1>1. KeysInv => OneRowPerPosting
  BY DEF KeysInv, Filed, OneRowPerPosting, OneRow
<1>2. QED
  BY <1>1, KeysCorrect, PTL

(* One row, one posting: a rewritten row is rewritten from its own posting.  *)
THEOREM PostingForEver == Spec => RowKeepsPosting
<1> DEFINE Kept == \A r \in rows : \E s \in rows' : s.key = r.key /\ s.post = r.post
<1>1. ASSUME KeysInv, [Next]_vars, Stable PROVE Kept
  <2>1. CASE Upsert
    <3> SUFFICES ASSUME NEW r \in rows
                 PROVE  \E s \in rows' : s.key = r.key /\ s.post = r.post
      OBVIOUS
    <3>1. CASE \A b \in Written : b.key # r.key
      <4>1. r \in rows'
        BY <2>1, <3>1 DEF Upsert
      <4>2. QED
        BY <4>1
    <3>2. ASSUME NEW b \in Written, b.key = r.key PROVE b \in rows' /\ b.post = r.post
      <4>1. b \in batch /\ b \in rows'
        BY <2>1 DEF Upsert, Written
      <4>2. /\ b.post \in Posts /\ born[b.post] # 0 /\ b.key = StableKey(b.post)
            /\ r.post \in Posts /\ r.key = StableKey(r.post)
        BY <1>1, <4>1 DEF KeysInv, Posted, Filed
      <4>3. QED
        BY <1>1, <3>2, <4>1, <4>2, StableKeysDiffer DEF KeysInv
    <3>3. QED
      BY <3>1, <3>2
  <2>2. CASE UNCHANGED rows
    BY <2>2
  <2>3. Upsert \/ UNCHANGED rows
    BY <1>1 DEF Next, vars, Publish, Remove, Pin, Unpin, FetchList, SkipLink,
                Scrape, AbortAsync, crawlVars
  <2>4. QED
    BY <2>1, <2>2, <2>3
<1>2. KeysInv /\ [Next]_vars => [Stable => Kept]_vars
  BY <1>1
<1>3. QED
  BY <1>2, KeysCorrect, PTL DEF Spec, RowKeepsPosting
-------------------------------------------------------------------------------
(***************************************************************************)
(* The duplicate check.                                                    *)
(***************************************************************************)

LEMMA NoKeyTwiceStep ==
    ASSUME NoKeyTwice, [Next]_vars
    PROVE  NoKeyTwice'
<1>1. CASE UNCHANGED <<batch, rows>>
  BY <1>1 DEF NoKeyTwice
<1>2. ASSUME NEW link \in links, NEW page \in PageKinds, Scrape(link, page)
      PROVE  NoKeyTwice'
  BY <1>2 DEF Scrape, NoKeyTwice
<1>3. CASE AbortAsync
  BY <1>3 DEF AbortAsync, EndCrawl, NoKeyTwice
<1>4. CASE Upsert
  <2>1. Written \subseteq batch /\ batch' = {}
    BY <1>4 DEF Upsert, Written, EndCrawl
  <2>2. \A r, s \in rows' : r.key = s.key => r = s
    BY <1>4, <2>1 DEF Upsert, NoKeyTwice
  <2>3. QED
    BY <2>1, <2>2 DEF NoKeyTwice
<1>5. QED
  BY <1>1, <1>2, <1>3, <1>4 DEF Next, vars, Publish, Remove, Pin, Unpin,
       FetchList, SkipLink, crawlVars

(* No statement names a key twice, which PostgreSQL would refuse, whatever   *)
(* keys the crawlers derive: also for business and underwood.                *)
THEOREM KeysOnce == Spec => []NoKeyTwice
<1>1. Init => NoKeyTwice
  BY DEF Init, NoKeyTwice
<1>2. NoKeyTwice /\ [Next]_vars => NoKeyTwice'
  BY NoKeyTwiceStep
<1>3. QED
  BY <1>1, <1>2, PTL DEF Spec
-------------------------------------------------------------------------------
(***************************************************************************)
(* What the parsers let through.                                           *)
(***************************************************************************)

PagesInv == crawler \in Codes /\ ErrorPagesStayOut

(* Only business and engineering make a payload of a page that is not the   *)
(* posting's, the latter not of an error status.                            *)
LEMMA PayloadPages ==
    ASSUME crawler \in Codes, NEW page \in PageKinds, IsPayload(ScrapeDetail(page))
    PROVE  \/ ScrapeDetail(page) \in {"posting", "noBody"}
           \/ crawler = "business"
           \/ crawler = "engineering" /\ ScrapeDetail(page) = "other"
<1>1. CASE crawler \in {"science", "ai", "medicine", "underwood"}
  <2>1. ScrapeDetail(page) = ByTemplate(page)
    BY <1>1 DEF ScrapeDetail, ParseScience, ParseMedicine, ParseComputing, ParseUic
  <2>2. QED
    BY <2>1 DEF ByTemplate, IsPayload
<1>2. CASE crawler = "glc"
  <2>1. ScrapeDetail(page) = ParseGlc(page)
    BY <1>2 DEF ScrapeDetail
  <2>2. QED
    BY <2>1 DEF ParseGlc, FetchHtml, ByTemplate, IsPayload
<1>3. CASE crawler = "engineering"
  <2>1. ScrapeDetail(page) = ParseEngineering(page)
    BY <1>3 DEF ScrapeDetail
  <2>2. QED
    BY <1>3, <2>1 DEF ParseEngineering, ByTemplate, IsPayload
<1>4. QED
  BY <1>1, <1>2, <1>3 DEF Codes

LEMMA PagesStep ==
    ASSUME PagesInv, [Next]_vars
    PROVE  PagesInv'
<1> USE DEF PagesInv
<1>1. CASE UNCHANGED <<crawler, batch, rows>>
  BY <1>1 DEF ErrorPagesStayOut
<1>2. ASSUME NEW link \in links, NEW page \in PageKinds, Scrape(link, page)
      PROVE  PagesInv'
  <2> DEFINE row == [key |-> ExternalId(link), post |-> link.post,
                     page |-> ScrapeDetail(page)]
  <2>1. batch' = batch \/ (IsPayload(ScrapeDetail(page)) /\ batch' = batch \union {row})
    BY <1>2 DEF Scrape
  <2>2. row.page = ScrapeDetail(page)
    OBVIOUS
  <2>3. UNCHANGED <<crawler, rows>>
    BY <1>2 DEF Scrape, fixedVars
  <2> HIDE DEF row
  <2>4. QED
    BY <2>1, <2>2, <2>3, PayloadPages DEF ErrorPagesStayOut
<1>3. CASE AbortAsync \/ Upsert
  <2>1. /\ batch' \union rows' \subseteq batch \union rows
        /\ UNCHANGED crawler
    BY <1>3 DEF AbortAsync, Upsert, EndCrawl, Written, fixedVars
  <2>2. QED
    BY <2>1 DEF ErrorPagesStayOut
<1>4. QED
  BY <1>1, <1>2, <1>3 DEF Next, vars, Publish, Remove, Pin, Unpin,
       FetchList, SkipLink, fixedVars, crawlVars

(* No board's error or maintenance page becomes a notice, but for the two    *)
(* parsers that take any heading for a title, however many crawls ran.       *)
THEOREM ErrorPagesRefused == Spec => []ErrorPagesStayOut
<1>1. Init => PagesInv
  BY BoardsOK DEF Init, PagesInv, ErrorPagesStayOut
<1>2. PagesInv /\ [Next]_vars => PagesInv'
  BY PagesStep
<1>3. PagesInv => ErrorPagesStayOut
  BY DEF PagesInv
<1>4. QED
  BY <1>1, <1>2, <1>3, PTL DEF Spec
-------------------------------------------------------------------------------
(***************************************************************************)
(* Type correctness.  A displayed number is a natural number only because a *)
(* board never holds infinitely many postings.                             *)
(***************************************************************************)

TypeInv == TypeOK /\ IsFiniteSet(up)

LEMMA LinksTyped ==
    ASSUME TypeInv
    PROVE  GetLinks \subseteq [no : Nat, post : up]
<1>1. \A S \in SUBSET up : Cardinality(S) \in Nat
  BY FS_Subset, FS_CardinalityType DEF TypeInv
<1>2. OrdinaryRows \subseteq up
  BY DEF OrdinaryRows, Newest
<1>3. ASSUME NEW p \in up PROVE Number(p) \in Nat /\ Position(p) \in Nat
  <2>1. {q \in up : born[q] <= born[p]} \in SUBSET up
    OBVIOUS
  <2>2. {q \in UicNews : \/ BoxOf[q] < BoxOf[p]
                         \/ BoxOf[q] = BoxOf[p] /\ born[q] >= born[p]} \in SUBSET up
    BY DEF UicNews
  <2>3. born[p] \in Nat
    BY DEF TypeInv, TypeOK
  <2>4. Number(p) \in Nat
    BY <1>1, <2>1, <2>3 DEF Number
  <2>5. Position(p) \in Nat
    BY <1>1, <2>2 DEF Position
  <2>6. QED
    BY <2>4, <2>5
<1>4. NumberedRows \subseteq [no : Nat, post : up]
  BY <1>2, <1>3 DEF NumberedRows
<1>5. MedicineLinks \subseteq [no : Nat, post : up]
  BY <1>2, BoardsOK DEF MedicineLinks, IdInUrl, TypeInv, TypeOK
<1>6. BusinessLinks \subseteq [no : Nat, post : up]
  BY <1>2, <1>3 DEF BusinessLinks, TypeInv, TypeOK
<1>7. UicLinks \subseteq [no : Nat, post : up]
  <2>1. UicNews \subseteq up
    BY DEF UicNews
  <2>2. QED
    BY <1>3, <2>1 DEF UicLinks
<1>8. crawler \in Codes
  BY BoardsOK DEF TypeInv, TypeOK
<1>9. GetLinks \in {NumberedRows, MedicineLinks, BusinessLinks, UicLinks}
  BY <1>8 DEF GetLinks, EngineeringLinks, ScienceLinks, AiLinks, GlcLinks, Codes
<1>10. QED
  BY <1>4, <1>5, <1>6, <1>7, <1>9

(* build_notice_payload lets no page without a title through. *)
LEMMA PayloadsTyped ==
    ASSUME crawler \in Codes, NEW page \in PageKinds, IsPayload(ScrapeDetail(page))
    PROVE  ScrapeDetail(page) \in StoredKinds
<1>1. ScrapeDetail(page) \in {ByTemplate(page), ParseGlc(page),
                              ParseEngineering(page), ParseBusiness(page)}
  BY DEF Codes, ScrapeDetail, ParseScience, ParseMedicine, ParseComputing, ParseUic
<1>2. QED
  BY <1>1 DEF ByTemplate, FetchHtml, ParseGlc, ParseEngineering, ParseBusiness, IsPayload,
              PageKinds, StoredKinds

LEMMA TypeStep ==
    ASSUME TypeInv, [Next]_vars
    PROVE  TypeInv'
<1> USE DEF TypeInv, TypeOK
<1>1. CASE UNCHANGED vars
  BY <1>1 DEF vars
<1>2. ASSUME NEW p \in Posts, Publish(p) PROVE TypeInv'
  <2>1. IsFiniteSet(up')
    BY <1>2, FS_AddElement DEF Publish
  <2>2. QED
    BY <1>2, <2>1 DEF Publish, fixedVars, crawlVars
<1>3. ASSUME NEW p \in Posts, Remove(p) \/ Pin(p) \/ Unpin(p) PROVE TypeInv'
  <2>1. up' \subseteq up
    BY <1>3 DEF Remove, Pin, Unpin
  <2>2. IsFiniteSet(up')
    BY <2>1, FS_Subset
  <2>3. QED
    BY <1>3, <2>2 DEF Remove, Pin, Unpin, fixedVars, crawlVars
<1>4. ASSUME NEW m \in Modes, FetchList(m) PROVE TypeInv'
  <2>1. links' \subseteq [no : Nat, post : up]
    BY <1>4, LinksTyped DEF FetchList
  <2>2. links' \subseteq Link /\ \A x \in links' : born[x.post] # 0
    BY <2>1 DEF Link
  <2>3. /\ UNCHANGED <<fixedVars, boardVars, batch, read, rows>>
        /\ mode' \in Modes /\ crawls' \in 0..MaxCrawls
    BY <1>4, BoardsOK DEF FetchList
  <2>4. QED
    BY <2>2, <2>3 DEF fixedVars, boardVars
<1>5. ASSUME NEW link \in links, NEW page \in PageKinds, Scrape(link, page)
      PROVE  TypeInv'
  <2> DEFINE row == [key |-> ExternalId(link), post |-> link.post,
                     page |-> ScrapeDetail(page)]
  <2>1. link.post \in Posts /\ born[link.post] # 0 /\ ExternalId(link) \in Nat
    BY BoardsOK DEF Link, ExternalId, ExternalIdFromUrl, IdInUrl
  <2>2. IsPayload(ScrapeDetail(page)) => ScrapeDetail(page) \in StoredKinds
    BY PayloadsTyped, BoardsOK
  <2>3. batch' = batch \/ (batch' = batch \union {row} /\ row \in Row)
    BY <1>5, <2>1, <2>2 DEF Scrape, Row
  <2>4. batch' \subseteq Row /\ \A b \in batch' : born[b.post] # 0
    BY <2>1, <2>3
  <2>5. links' \subseteq links /\ read' \subseteq Posts
    BY <1>5, <2>1 DEF Scrape
  <2>6. QED
    BY <1>5, <2>4, <2>5 DEF Scrape, fixedVars, boardVars
<1>6. CASE (\E link \in links : SkipLink(link)) \/ AbortAsync \/ Upsert
  <2>1. /\ UNCHANGED <<fixedVars, boardVars, crawls>>
        /\ mode' \in {mode, "idle"}
        /\ links' \subseteq links /\ batch' \subseteq batch /\ read' \subseteq read
        /\ rows' \subseteq rows \union batch
    BY <1>6 DEF SkipLink, AbortAsync, Upsert, EndCrawl, Written
  <2>2. QED
    BY <2>1 DEF fixedVars, boardVars
<1>7. QED
  BY <1>1, <1>2, <1>3, <1>4, <1>5, <1>6 DEF Next

(* Every variable keeps its type, for every board and number of crawls. *)
THEOREM TypeCorrect == Spec => []TypeOK
<1>1. Init => TypeInv
  BY FS_EmptySet, BoardsOK DEF Init, TypeInv, TypeOK
<1>2. TypeInv /\ [Next]_vars => TypeInv'
  BY TypeStep
<1>3. TypeInv => TypeOK
  BY DEF TypeInv
<1>4. QED
  BY <1>1, <1>2, <1>3, PTL DEF Spec
-------------------------------------------------------------------------------
(***************************************************************************)
(* What was read is stored.                                                *)
(***************************************************************************)

(* A smaller part of a finite set has fewer members. *)
LEMMA StrictSubset ==
    ASSUME NEW T, IsFiniteSet(T), NEW S \in SUBSET T, NEW x \in T, x \notin S
    PROVE  Cardinality(S) # Cardinality(T)
BY FS_Subset

(* No two postings on a page are displayed with one number... *)
LEMMA NumbersDiffer ==
    ASSUME TypeInv, SerialsUnique, NEW p \in up, NEW q \in up, Number(p) = Number(q)
    PROVE  p = q
<1> DEFINE UpTo(x) == {r \in up : born[r] <= born[x]}
<1>1. p \in Posts /\ q \in Posts /\ \A x \in up : born[x] \in Nat \ {0}
  BY DEF TypeInv, TypeOK
<1>2. CASE ~style.renumbers
  BY <1>1, <1>2 DEF Number, SerialsUnique
<1>3. ASSUME NEW x \in up, NEW y \in up, born[x] < born[y]
      PROVE  Cardinality(UpTo(x)) # Cardinality(UpTo(y))
  <2>1. IsFiniteSet(UpTo(y))
    BY FS_Subset DEF TypeInv
  <2>2. UpTo(x) \in SUBSET UpTo(y) /\ y \in UpTo(y) /\ y \notin UpTo(x)
    BY <1>1, <1>3
  <2> HIDE DEF UpTo
  <2>3. QED BY <2>1, <2>2, StrictSubset
<1>4. CASE style.renumbers
  <2>1. Cardinality(UpTo(p)) = Cardinality(UpTo(q))
    BY <1>4 DEF Number
  <2> HIDE DEF UpTo
  <2>2. ~(born[p] < born[q]) /\ ~(born[q] < born[p])
    BY <1>3, <2>1
  <2>3. QED BY <1>1, <2>2 DEF SerialsUnique
<1>5. QED BY <1>2, <1>4

(* ...and no two take one position among the boxes of the UIC news page. *)
LEMMA PositionsDiffer ==
    ASSUME TypeInv, SerialsUnique,
           NEW p \in UicNews, NEW q \in UicNews, Position(p) = Position(q)
    PROVE  p = q
<1> DEFINE Before(r, x) == \/ BoxOf[r] < BoxOf[x]
                           \/ BoxOf[r] = BoxOf[x] /\ born[r] >= born[x]
           UpTo(x) == {r \in UicNews : Before(r, x)}
<1>1. UicNews \subseteq up
  BY DEF UicNews
<1>2. \A x \in UicNews : x \in Posts /\ BoxOf[x] \in Nat /\ born[x] \in Nat \ {0}
  BY <1>1, BoardsOK DEF TypeInv, TypeOK
<1>3. ASSUME NEW x \in UicNews, NEW y \in UicNews, ~Before(y, x)
      PROVE  Cardinality(UpTo(x)) # Cardinality(UpTo(y))
  <2>1. IsFiniteSet(UpTo(y))
    BY <1>1, FS_Subset DEF TypeInv
  <2>2. UpTo(x) \in SUBSET UpTo(y) /\ y \in UpTo(y) /\ y \notin UpTo(x)
    BY <1>2, <1>3
  <2> HIDE DEF UpTo
  <2>3. QED BY <2>1, <2>2, StrictSubset
<1>4. Cardinality(UpTo(p)) = Cardinality(UpTo(q))
  BY DEF Position
<1>5. Before(p, q) /\ Before(q, p)
  <2> HIDE DEF UpTo, Before
  <2>1. QED BY <1>3, <1>4
<1>6. QED BY <1>2, <1>5 DEF SerialsUnique

(* Where keys are apart, a list page gives no number to two postings.         *)
LEMMA LinksDiffer ==
    ASSUME TypeInv, SerialsUnique, KeysApart,
           NEW x \in GetLinks, NEW y \in GetLinks, x.no = y.no
    PROVE  x = y
<1>1. crawler \in Codes
  BY BoardsOK DEF TypeInv, TypeOK
<1>2. OrdinaryRows \subseteq up /\ pinned \subseteq up /\ up \subseteq Posts
  BY DEF OrdinaryRows, Newest, TypeInv, TypeOK
<1>3. CASE crawler \in {"engineering", "science", "ai", "glc"}
  <2>1. x \in NumberedRows /\ y \in NumberedRows
    BY <1>3 DEF GetLinks, EngineeringLinks, ScienceLinks, AiLinks, GlcLinks
  <2>2. PICK p \in OrdinaryRows : x = [no |-> Number(p), post |-> p]
    BY <2>1 DEF NumberedRows
  <2>3. PICK q \in OrdinaryRows : y = [no |-> Number(q), post |-> q]
    BY <2>1 DEF NumberedRows
  <2>4. Number(p) = Number(q)
    BY <2>2, <2>3
  <2>5. p = q
    BY <1>2, <2>4, NumbersDiffer
  <2>6. QED BY <2>2, <2>3, <2>5
<1>4. CASE crawler = "medicine"
  <2>1. x \in MedicineLinks /\ y \in MedicineLinks
    BY <1>4 DEF GetLinks
  <2>2. PICK p \in Posts : x = [no |-> IdOf[p], post |-> p]
    BY <1>2, <1>4, <2>1 DEF MedicineLinks, IdInUrl, KeysApart
  <2>3. PICK q \in Posts : y = [no |-> IdOf[q], post |-> q]
    BY <1>2, <1>4, <2>1 DEF MedicineLinks, IdInUrl, KeysApart
  <2>4. IdOf[p] = IdOf[q]
    BY <2>2, <2>3
  <2>5. QED BY <2>2, <2>3, <2>4, BoardsOK
<1>5. CASE crawler = "underwood"
  <2>1. x \in UicLinks /\ y \in UicLinks
    BY <1>5 DEF GetLinks
  <2>2. PICK p \in UicNews : x = [no |-> Position(p), post |-> p]
    BY <2>1 DEF UicLinks
  <2>3. PICK q \in UicNews : y = [no |-> Position(q), post |-> q]
    BY <2>1 DEF UicLinks
  <2>4. Position(p) = Position(q)
    BY <2>2, <2>3
  <2>5. p = q
    BY <2>4, PositionsDiffer
  <2>6. QED BY <2>2, <2>3, <2>5
<1>6. QED BY <1>1, <1>3, <1>4, <1>5 DEF Codes, KeysApart

(* Every parser recognises the page of a posting. *)
LEMMA PostingParsed ==
    ASSUME crawler \in Codes
    PROVE  ScrapeDetail("posting") = "posting"
<1>1. ScrapeDetail("posting") \in {ByTemplate("posting"), ParseGlc("posting"),
                                   ParseEngineering("posting"), ParseBusiness("posting")}
  BY DEF Codes, ScrapeDetail, ParseScience, ParseMedicine, ParseComputing, ParseUic
<1>2. QED
  BY <1>1 DEF ByTemplate, FetchHtml, ParseGlc, ParseEngineering, ParseBusiness

(* The inductive invariant behind ReadIsStored: no two links to come, and no *)
(* link and payload, have one number, and what was read is in the batch.     *)
ReadInv ==
    KeysApart =>
      /\ mode = "idle" => links = {} /\ batch = {} /\ read = {}
      /\ \A x, y \in links : x.no = y.no => x = y
      /\ \A x \in links, b \in batch : x.no # b.key
      /\ \A p \in read : \E b \in batch : b.post = p /\ b.page = "posting"

LEMMA ScrapeKeepsRead ==
    ASSUME TypeInv, ReadInv, KeysApart,
           NEW link \in links, NEW page \in PageKinds, Scrape(link, page)
    PROVE  ReadInv'
<1> DEFINE row == [key |-> ExternalId(link), post |-> link.post,
                   page |-> ScrapeDetail(page)]
<1>1. row.key = link.no /\ row.post = link.post /\ row.page = ScrapeDetail(page)
  BY DEF ExternalId, KeysApart
<1>2. \A b \in batch : b.key # row.key
  BY <1>1 DEF ReadInv
<1>3. /\ mode' = mode /\ mode # "idle" /\ links' = links \ {link}
      /\ read' = IF page = "posting" THEN read \union {link.post} ELSE read
      /\ batch' = batch \/ batch' = batch \union {row}
      /\ IsPayload(ScrapeDetail(page)) => batch' = batch \union {row}
  BY <1>2 DEF Scrape
<1>4. page = "posting" => row \in batch' /\ row.page = "posting"
  BY <1>1, <1>3, PostingParsed, BoardsOK DEF IsPayload, TypeInv, TypeOK
<1> HIDE DEF row
<1>5. \A x \in links', b \in batch' : x.no # b.key
  BY <1>1, <1>3 DEF ReadInv
<1>6. \A p \in read' : \E b \in batch' : b.post = p /\ b.page = "posting"
  BY <1>1, <1>3, <1>4 DEF ReadInv
<1>7. UNCHANGED <<crawler, style>>
  BY DEF Scrape, fixedVars
<1>8. QED BY <1>3, <1>5, <1>6, <1>7 DEF ReadInv, KeysApart

LEMMA ReadStep ==
    ASSUME TypeInv, SerialsUnique, ReadInv, [Next]_vars
    PROVE  ReadInv'
<1>1. UNCHANGED <<crawler, style>>
  BY DEF Next, vars, Publish, Remove, Pin, Unpin, FetchList, SkipLink, Scrape,
         AbortAsync, Upsert, fixedVars
<1> SUFFICES ASSUME KeysApart PROVE ReadInv'
  BY <1>1 DEF ReadInv, KeysApart
<1>2. CASE UNCHANGED <<mode, links, batch, read>>
  BY <1>1, <1>2 DEF ReadInv
<1>3. ASSUME NEW m \in Modes, FetchList(m) PROVE ReadInv'
  <2>1. /\ links = {} /\ batch = {} /\ read = {} /\ mode' \in {"sync", "async"}
        /\ links' = GetLinks /\ UNCHANGED <<batch, read>>
    BY <1>3, BoardsOK DEF FetchList, ReadInv
  <2>2. \A x, y \in links' : x.no = y.no => x = y
    BY <2>1, LinksDiffer
  <2>3. QED BY <2>1, <2>2 DEF ReadInv
<1>4. ASSUME NEW link \in links, NEW page \in PageKinds, Scrape(link, page)
      PROVE  ReadInv'
  BY <1>4, ScrapeKeepsRead
<1>5. ASSUME NEW link \in links, SkipLink(link) PROVE ReadInv'
  BY <1>5 DEF SkipLink, ReadInv
<1>6. CASE AbortAsync \/ Upsert
  BY <1>6 DEF AbortAsync, Upsert, EndCrawl, ReadInv
<1>7. QED
  BY <1>2, <1>3, <1>4, <1>5, <1>6
     DEF Next, vars, Publish, Remove, Pin, Unpin, crawlVars

(* The statement writes every payload whose row is not there already with    *)
(* the same hash, and the hash of a posting's page is that of no other page. *)
LEMMA UpsertStoresRead ==
    ASSUME NoKeyTwice, ReadInv, KeysApart, Upsert, NEW p \in read
    PROVE  \E r \in rows' : r.post = p
<1>1. PICK b \in batch : b.post = p /\ b.page = "posting"
  BY DEF ReadInv
<1>2. rows' = {r \in rows : \A w \in Written : w.key # r.key} \union Written
  BY DEF Upsert
<1>3. CASE b \in Written
  BY <1>1, <1>2, <1>3
<1>4. CASE b \notin Written
  <2>1. PICK r \in rows : r.key = b.key /\ ContentHash(r) = ContentHash(b)
    BY <1>4 DEF Written
  <2>2. ContentHash(b) = <<"posting", p>>
    BY <1>1 DEF ContentHash
  <2>3. r.post = p
    BY <2>1, <2>2 DEF ContentHash
  <2>4. \A w \in Written : w.key # r.key
    BY <1>4, <2>1 DEF Written, NoKeyTwice
  <2>5. QED BY <1>2, <2>3, <2>4
<1>5. QED BY <1>3, <1>4

(* For every board, whatever it does between the crawls and however it       *)
(* numbers its postings: a posting whose page a crawl read is in the table   *)
(* when the crawl commits; the duplicate check costs no posting (business    *)
(* and bare URLs of medicine excepted).                                      *)
THEOREM ReadPostingsStored == Spec => ReadIsStored
<1>1. Init => TypeInv /\ ReadInv
  BY FS_EmptySet, BoardsOK DEF Init, TypeInv, TypeOK, ReadInv
<1>2. TypeInv /\ [Next]_vars => TypeInv'
  BY TypeStep
<1>3. KeysInv => SerialsUnique
  BY DEF KeysInv
<1>4. TypeInv /\ SerialsUnique /\ ReadInv /\ [Next]_vars => ReadInv'
  BY ReadStep
<1>5. NoKeyTwice /\ ReadInv /\ [Next]_vars
        => [mode # "idle" /\ mode' = "idle" /\ links = {} /\ KeysApart
              => \A p \in read : \E r \in rows' : r.post = p]_vars
  <2> SUFFICES ASSUME NoKeyTwice, ReadInv, Next, mode # "idle", mode' = "idle",
                      links = {}, KeysApart
               PROVE  \A p \in read : \E r \in rows' : r.post = p
    OBVIOUS
  <2>1. Upsert
    BY BoardsOK DEF Next, Publish, Remove, Pin, Unpin, FetchList, SkipLink, Scrape,
                    AbortAsync, crawlVars
  <2>2. QED BY <2>1, UpsertStoresRead
<1>6. QED
  BY <1>1, <1>2, <1>3, <1>4, <1>5, KeysCorrect, KeysOnce, PTL DEF Spec, ReadIsStored
===============================================================================
