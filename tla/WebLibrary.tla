----------------------------- MODULE WebLibrary -----------------------------
(***************************************************************************)
(* The asset library of the web client (ServerAssetLibrary.tsx): a list of *)
(* the server's assets that is read page by page for the chosen mode,      *)
(* scope and filters, read again a moment after any of them changes, and   *)
(* of which only the newest request may change the list.                   *)
(*                                                                         *)
(* Assets are numbers, the newest first, which is the order of the         *)
(* server's pages; they do not change here (WebReviews has the reviews).   *)
(***************************************************************************)
EXTENDS Naturals, FiniteSets

CONSTANTS
    Rows,           \* numbers of the server's assets
    CampaignOf,     \* the campaign of each asset
    Matching,       \* the assets that match the filter
    PageSize,       \* ASSET_PAGE_SIZE
    MaxListed,      \* MAX_RENDERED_SERVER_ASSETS
    MaxRequests,    \* bound on the list requests under way
    Hasty           \* more assets are asked for while the list is read again

ASSUME WebLibraryAssumption ==
    /\ Rows \subseteq Nat /\ IsFiniteSet(Rows) /\ Matching \subseteq Rows
    /\ PageSize \in Nat \ {0} /\ MaxListed \in Nat /\ PageSize <= MaxListed
    /\ MaxRequests \in Nat /\ Hasty \in BOOLEAN

VARIABLES
    query,      \* mode, scope and filters
    draftQuery,      \* draftFilters
    due,        \* the timer of refreshAssets
    listed,     \* assets
    origin,     \* history: the queries whose answers are in the list
    hasMore,
    busy,       \* loading and loadingMore
    said,       \* error and unauthorized
    newest,     \* requestRef and inflightQueryRef: the slot of the newest request
    asked       \* the list requests under way

libraryVars == <<query, draftQuery, due, listed, origin, hasMore, busy, said, newest,
                 asked>>

-----------------------------------------------------------------------------
CampaignNames == {CampaignOf[r] : r \in Rows}
Filters   == {"", "some"}
Query     == [mode: {"recent", "scope"}, campaign: CampaignNames \cup {"none"}, filter: Filters]
ListSlots     == 1..MaxRequests
NoneYet == 0
NoList      == [pc |-> "free", append |-> FALSE, offset |-> 0,
              query |-> [mode |-> "recent", campaign |-> "none", filter |-> ""]]

LibraryInit ==
    /\ query = [mode |-> "recent", campaign |-> "none", filter |-> ""]
    /\ draftQuery = "" /\ due = TRUE
    /\ listed = {} /\ origin = {} /\ hasMore = FALSE
    /\ busy = [loading |-> FALSE, more |-> FALSE] /\ said = "nothing"
    /\ newest = NoneYet /\ asked = [k \in ListSlots |-> NoList]

-----------------------------------------------------------------------------
(* What is asked for. *)

\* A change makes a new refreshAssets, and its effect starts the timer again.
Asking(q) == query' = q /\ due' = (due \/ q # query)
ListStays == UNCHANGED <<listed, origin, hasMore, busy, said, newest, asked>>

SetMode(m) ==
    /\ query.mode # m /\ Asking([query EXCEPT !.mode = m])
    /\ UNCHANGED draftQuery /\ ListStays

\* commitScope, by this panel or another.
CommitScope(c) ==
    /\ query.campaign # c /\ Asking([query EXCEPT !.campaign = c])
    /\ UNCHANGED draftQuery /\ ListStays

\* switchToAssetScope and openProductionViewFromAsset, of a listed asset.
SwitchToAssetScope(r) ==
    /\ r \in listed
    /\ Asking([query EXCEPT !.mode = "scope", !.campaign = CampaignOf[r]])
    /\ UNCHANGED draftQuery /\ ListStays

\* setTextFilter, and the debounced copy to the filters.
SetTextFilter(f) ==
    /\ draftQuery # f /\ draftQuery' = f
    /\ UNCHANGED <<query, due>> /\ ListStays

Debounced ==
    /\ draftQuery # query.filter /\ Asking([query EXCEPT !.filter = draftQuery])
    /\ UNCHANGED draftQuery /\ ListStays

\* setStatusFilter and clearFilters.
SetStatusFilter(f) ==
    /\ draftQuery # f \/ query.filter # f
    /\ draftQuery' = f /\ Asking([query EXCEPT !.filter = f]) /\ ListStays

-----------------------------------------------------------------------------
(* loadAssets. *)

ScopeReady == query.campaign # "none"

LoadAssets(append, offset) ==
    /\ said' = IF ~append THEN "nothing" ELSE IF said = "error" THEN "nothing" ELSE said
    /\ IF query.mode = "scope" /\ ~ScopeReady
       THEN /\ newest' = NoneYet
            /\ hasMore' = FALSE
            /\ busy' = [loading |-> FALSE, more |-> FALSE]
            /\ UNCHANGED asked
       ELSE IF /\ ~append /\ newest # NoneYet
               /\ ~asked[newest].append /\ asked[newest].offset = offset
               /\ asked[newest].query = query
       THEN UNCHANGED <<newest, hasMore, busy, asked>>
       ELSE \E k \in ListSlots :
              /\ asked[k].pc = "free" /\ \A j \in 1..(k - 1) : asked[j].pc # "free"
              /\ asked' = [asked EXCEPT ![k] = [NoList EXCEPT !.pc = "sent", !.append = append,
                                                !.offset = offset, !.query = query]]
              /\ newest' = k
              /\ busy' = IF append THEN [busy EXCEPT !.more = TRUE]
                         ELSE [busy EXCEPT !.loading = TRUE]
              /\ UNCHANGED hasMore
    /\ UNCHANGED <<query, draftQuery, listed, origin>>

\* The timer; or the button, which is disabled while the list is read and leaves
\* a timer running.
RefreshList ==
    /\ \/ due /\ due' = FALSE
       \/ ~busy.loading /\ (query.mode = "recent" \/ ScopeReady) /\ UNCHANGED due
    /\ LoadAssets(FALSE, 0)

\* The button below the list, disabled while it is at work itself.
LoadMore ==
    /\ hasMore /\ ~busy.more /\ said # "unauthorized"
    /\ query.mode = "recent" \/ ScopeReady
    /\ Hasty \/ (~busy.loading /\ ~due)
    /\ UNCHANGED due
    /\ LoadAssets(TRUE, Cardinality(listed))

\* The server's page, external: the assets from the offset on that match.
Matches(q) ==
    {r \in Rows : /\ q.mode = "scope" => CampaignOf[r] = q.campaign
                  /\ q.filter # "" => r \in Matching}
Page(q, offset) ==
    LET before(r) == Cardinality({s \in Matches(q) : s < r})
    IN  {r \in Matches(q) : before(r) \in offset..(offset + PageSize - 1)}

\* mergeAssets: what is listed is not replaced, and the rest is cut off.
WithPage(page) ==
    LET new == page \ listed
    IN  listed \cup {r \in new : Cardinality(listed) + Cardinality({s \in new : s <= r}) <= MaxListed}

Least(a, b) == IF a < b THEN a ELSE b

\* The recent assets are those of every campaign.
Meant(q) == IF q.mode = "recent" THEN [q EXCEPT !.campaign = "none"] ELSE q

\* Mutant: any answer is taken.
AnswerTaken(k) == TRUE

\* Only the newest request's answer is taken.
Taken(k) == k = newest

ListAnswered(k) ==
    LET page == Page(asked[k].query, asked[k].offset)
        size == Cardinality(page)
        count == IF asked[k].append THEN asked[k].offset + size ELSE size
    IN  /\ asked[k].pc = "sent"
        /\ asked' = [asked EXCEPT ![k] = NoList]
        /\ IF Taken(k)
           THEN /\ listed' = IF asked[k].append THEN WithPage(page) ELSE page
                /\ origin' = (IF asked[k].append THEN origin ELSE {}) \cup {Meant(asked[k].query)}
                /\ hasMore' = (size = PageSize /\ Least(count, MaxListed) < MaxListed)
                /\ said' = IF said = "unauthorized" THEN "nothing" ELSE said
                /\ busy' = [loading |-> FALSE, more |-> FALSE]
                /\ newest' = IF k = newest THEN NoneYet ELSE newest
           ELSE UNCHANGED <<listed, origin, hasMore, said, busy, newest>>
        /\ UNCHANGED <<query, draftQuery, due>>

\* The list that is shown stays; a refused request hides it.
ListFails(k, how) ==
    /\ asked[k].pc = "sent"
    /\ asked' = [asked EXCEPT ![k] = NoList]
    /\ IF Taken(k)
       THEN /\ said' = how
            /\ hasMore' = (hasMore /\ asked[k].append)
            /\ busy' = [loading |-> FALSE, more |-> FALSE]
            /\ newest' = NoneYet
       ELSE UNCHANGED <<said, hasMore, busy, newest>>
    /\ UNCHANGED <<query, draftQuery, due, listed, origin>>

-----------------------------------------------------------------------------
LibraryNext ==
    \/ \E m \in {"recent", "scope"} : SetMode(m)
    \/ \E c \in CampaignNames : CommitScope(c)
    \/ \E f \in Filters : SetTextFilter(f) \/ SetStatusFilter(f)
    \/ Debounced \/ RefreshList \/ LoadMore
    \/ \E k \in ListSlots :
         \/ ListAnswered(k)
         \/ \E how \in {"error", "unauthorized"} : ListFails(k, how)
    \/ \E r \in Rows : SwitchToAssetScope(r)

LibrarySpec == LibraryInit /\ [][LibraryNext]_libraryVars

-----------------------------------------------------------------------------
(* Properties *)

LibraryTypeOK ==
    /\ query \in Query /\ draftQuery \in Filters /\ due \in BOOLEAN
    /\ listed \subseteq Rows /\ Cardinality(listed) <= MaxListed
    /\ origin \subseteq Query /\ hasMore \in BOOLEAN
    /\ busy \in [loading: BOOLEAN, more: BOOLEAN]
    /\ said \in {"nothing", "error", "unauthorized"}
    /\ newest \in {NoneYet} \cup {k \in ListSlots : asked[k].pc # "free"}
    /\ asked \in [ListSlots -> [pc: {"free", "sent"}, append: BOOLEAN,
                            offset: 0..MaxListed, query: Query]]

\* When no request is awaited, due or failed, every asset in the list was
\* answered for the mode, scope and filters shown above it.
ListedIsAsked ==
    (/\ newest = NoneYet /\ ~due /\ said = "nothing"
     /\ query.mode = "recent" \/ ScopeReady) => origin \subseteq {Meant(query)}

=============================================================================
