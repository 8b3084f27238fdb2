----------------------------- MODULE SavedSearches -----------------------------
(***************************************************************************)
(* The saved searches of the topology: the form (NetworkTopology.tsx), the *)
(* list it offers and the store at the server, where a save with the id of *)
(* a search replaces it, or adds it when there is none. One browser of one *)
(* account. A search is named by a number, 0 for none; what it asks for is *)
(* left out.                                                               *)
(***************************************************************************)
EXTENDS Integers, FiniteSetsExt

CONSTANTS MaxSearches, \* bound of the model: searches ever saved
          MaxListings  \* bound of the model: listings under way

ASSUME SearchesAssumption == MaxSearches \in Nat /\ MaxListings \in Nat

NoSearch == 0
SearchIds == 1..MaxSearches

VARIABLES
    searchStore,  \* topology_saved_queries
    issuedIds,    \* ids given so far
    formOf,       \* the saved search query and queryName come from
    chosenSearch, \* savedQueryId
    searchList,   \* savedQueries
    searchBusy,   \* queryBusy: the call under way, or the listing after it
    searchReads,  \* listings under way, numbered, with what the server answered
    searchHistory \* history: another search was opened during a save; listings
                  \* were answered in another order, or failed

formVars == <<formOf, chosenSearch>>
savedSearchVars == <<searchStore, issuedIds, formVars, searchList, searchBusy,
                     searchReads, searchHistory>>

Idle == [kind |-> "none", id |-> NoSearch]

(* The store, the form and the calls are well formed; a search is listed   *)
(* or chosen only once the server stored it under its id. *)
SavedSearchesTypeOK ==
    /\ issuedIds \in 0..MaxSearches
    /\ searchStore \cup searchList \cup ({formOf, chosenSearch} \ {NoSearch})
         \subseteq 1..issuedIds
    /\ searchBusy \in [kind : {"none", "save", "saved", "delete", "deleted"},
                       id : {NoSearch} \cup SearchIds]
                      \cup [kind : {"listing"}, id : 1..MaxListings]
    /\ searchHistory \in [opened : BOOLEAN, disordered : BOOLEAN]

SavedSearchesInit ==
    /\ searchStore = {} /\ searchList = {}
    /\ issuedIds = 0 /\ chosenSearch = NoSearch /\ formOf = NoSearch
    /\ searchBusy = Idle /\ searchReads = {}
    /\ searchHistory = [opened |-> FALSE, disordered |-> FALSE]

NewestRead == Max({0} \cup {r.number : r \in searchReads})

(* refreshSavedQueries: the effect on opening the workspace, and the end   *)
(* of every save and deletion. *)
BeginListing ==
    /\ NewestRead < MaxListings
    /\ searchReads' = searchReads \cup
         {[number |-> NewestRead + 1, answered |-> FALSE, list |-> {}]}

OpenWorkspace ==
    /\ BeginListing
    /\ UNCHANGED <<searchStore, issuedIds, formVars, searchList, searchBusy, searchHistory>>

(* The server answers a listing; ... *)
ServeListing(r) ==
    /\ ~r.answered
    /\ searchReads' = (searchReads \ {r})
                      \cup {[r EXCEPT !.answered = TRUE, !.list = searchStore]}
    /\ UNCHANGED <<searchStore, issuedIds, formVars, searchList, searchBusy, searchHistory>>

(* The listing after a save or a deletion ends it. *)
Ended(r) ==
    searchBusy' = IF searchBusy = [kind |-> "listing", id |-> r.number] THEN Idle
                  ELSE searchBusy

(* ... the answer is shown, whichever was asked last, or was lost.         *)
ListingArrives(r) ==
    /\ r.answered /\ Ended(r)
    /\ searchReads' = searchReads \ {r}
    /\ searchList' = r.list
    /\ searchHistory' = [searchHistory EXCEPT !.disordered =
                           @ \/ \E x \in searchReads : x.number < r.number]
    /\ UNCHANGED <<searchStore, issuedIds, formVars>>

ListingFails(r) ==
    /\ searchReads' = searchReads \ {r} /\ Ended(r)
    /\ searchHistory' = [searchHistory EXCEPT !.disordered = TRUE]
    /\ UNCHANGED <<searchStore, issuedIds, formVars, searchList>>

-----------------------------------------------------------------------------
Calling == searchBusy.kind \notin {"none", "listing"}

(* "Open saved search": offered at any time. *)
OpenSearch(id) ==
    /\ id \in searchList
    /\ chosenSearch' = id
    /\ formOf' = id
    /\ searchHistory' = [searchHistory EXCEPT !.opened = @ \/ Calling]
    /\ UNCHANGED <<searchStore, issuedIds, searchList, searchBusy, searchReads>>

(* "Choose a saved search": the form stays, and becomes a new search. *)
ForgetSearch ==
    /\ chosenSearch' = NoSearch
    /\ formOf' = NoSearch
    /\ searchHistory' = [searchHistory EXCEPT !.opened = @ \/ Calling]
    /\ UNCHANGED <<searchStore, issuedIds, searchList, searchBusy, searchReads>>

(* saveGraphQuery and deleteGraphQuery: the button is off while one runs. *)
SaveSearch ==
    /\ searchBusy = Idle
    /\ chosenSearch = NoSearch => issuedIds < MaxSearches
    /\ searchBusy' = [kind |-> "save", id |-> chosenSearch]
    /\ UNCHANGED <<searchStore, issuedIds, formVars, searchList, searchReads, searchHistory>>

DeleteSearch ==
    /\ searchBusy = Idle /\ chosenSearch # NoSearch
    /\ searchBusy' = [Idle EXCEPT !.kind = "delete", !.id = chosenSearch]
    /\ UNCHANGED <<searchStore, issuedIds, formVars, searchList, searchReads, searchHistory>>

(* MongoTopologyQueryStore.save: an upsert. *)
StoreSearch ==
    /\ searchBusy.kind = "save"
    /\ LET id == IF searchBusy.id = NoSearch THEN issuedIds + 1 ELSE searchBusy.id
       IN /\ searchStore' = searchStore \cup {id}
          /\ issuedIds' = IF id > issuedIds THEN id ELSE issuedIds
          /\ searchBusy' = [searchBusy EXCEPT !.kind = "saved", !.id = id]
    /\ UNCHANGED <<formVars, searchList, searchReads, searchHistory>>

(* MongoTopologyQueryStore.delete *)
RemoveSearch ==
    /\ searchBusy.kind = "delete" /\ searchBusy.id \in searchStore
    /\ searchStore' = searchStore \ {searchBusy.id}
    /\ searchBusy' = [searchBusy EXCEPT !.kind = "deleted"]
    /\ UNCHANGED <<issuedIds, formVars, searchList, searchReads, searchHistory>>

(* The page may have turned to another search before the answer. *)
OwnAnswer == IF searchHistory.opened THEN formOf ELSE searchBusy.id

(* The answer names the search saved, or drops the one deleted, and lists  *)
(* again. *)
AnswerArrives ==
    /\ searchBusy.kind \in {"saved", "deleted"}
    /\ chosenSearch' = IF searchBusy.kind = "deleted" THEN NoSearch ELSE searchBusy.id
    /\ formOf' = IF searchBusy.kind = "deleted" THEN NoSearch ELSE OwnAnswer
    /\ BeginListing
    /\ searchBusy' = [kind |-> "listing", id |-> NewestRead + 1]
    /\ UNCHANGED <<searchStore, issuedIds, searchList, searchHistory>>

(* The call fails, at the server or on the way back; nothing is listed. *)
SearchCallFails ==
    /\ Calling
    /\ searchBusy' = Idle
    /\ searchHistory' = [searchHistory EXCEPT
         !.disordered = @ \/ searchBusy.kind \in {"saved", "deleted"}]
    /\ UNCHANGED <<searchStore, issuedIds, formVars, searchList, searchReads>>

SavedSearchesNext ==
    \/ OpenWorkspace \/ ForgetSearch \/ SaveSearch \/ DeleteSearch
    \/ StoreSearch \/ RemoveSearch \/ AnswerArrives \/ SearchCallFails
    \/ \E r \in searchReads : ServeListing(r) \/ ListingArrives(r) \/ ListingFails(r)
    \/ \E id \in SearchIds : OpenSearch(id)

SavedSearchesSpec == SavedSearchesInit /\ [][SavedSearchesNext]_savedSearchVars

-----------------------------------------------------------------------------
(* The next save replaces the search the form was opened from or saved as, *)
(* and no other. The exception is what the code does: the list of searches *)
(* stays open while a save runs, and its answer then turns the form that   *)
(* shows another search to the one that was saved (saveGraphQuery).        *)
SaveReplacesItsOwn ==
    chosenSearch # NoSearch => chosenSearch = formOf \/ searchHistory.opened

(* With no call and no listing under way the list is what the server has,  *)
(* unless a listing failed or an older one came last, which nothing        *)
(* prevents (refreshSavedQueries has no order of its own).                 *)
QuietSearchListIsExact ==
    searchBusy = Idle /\ searchReads = {} /\ ~searchHistory.disordered
      => searchList = searchStore

(* The parts of the inductive invariant that are not properties of their   *)
(* own. A call is about a search with an id, or about a new one for which  *)
(* there is room; listings have numbers of their own, ...                  *)
CallsAreKnown ==
    /\ searchBusy.kind # "listing" => searchBusy.id \in 0..issuedIds
    /\ searchBusy.kind = "save" /\ searchBusy.id = NoSearch => issuedIds < MaxSearches
    /\ searchReads \subseteq [number : 1..MaxListings, answered : BOOLEAN,
                             list : SUBSET (1..issuedIds)]
    /\ \A r, x \in searchReads : r.number = x.number => r = x

(* ... and, between a change of the store and the listing that follows it, *)
(* the newest is answered with the store as it is. *)
NewestListingIsExact ==
    searchBusy.kind \notin {"saved", "deleted"} /\ ~searchHistory.disordered =>
        /\ searchReads = {} => searchList = searchStore
        /\ \A r \in searchReads :
             r.answered /\ (\A x \in searchReads : x.number <= r.number)
             => r.list = searchStore

(* What the list of saved searches promises (NetworkTopology.tsx).         *)
SearchesInv ==
    /\ SavedSearchesTypeOK
    /\ SaveReplacesItsOwn
    /\ QuietSearchListIsExact
    /\ CallsAreKnown
    /\ NewestListingIsExact
=============================================================================
