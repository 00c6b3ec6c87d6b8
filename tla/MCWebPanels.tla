------------------------------ MODULE MCWebPanels ------------------------------
(***************************************************************************)
(* The panels and windows of the web client in one run: each behaviour     *)
(* follows one of them, chosen at the start, while the others keep their   *)
(* initial state.  Where a panel starts in one of several states, the      *)
(* others' behaviours fix one of them.                                     *)
(***************************************************************************)
EXTENDS WebLibrary, WebReviews, WebScopes, WebContext, WebFavorites, WebInput,
        WebMask, WebProfiles, WebManaged

CONSTANTS a1, t1
VARIABLE focus

MCCampaignOf == (1 :> "c1") @@ (2 :> "c2")
MCParentOf   == ("p1" :> "w1") @@ ("c1" :> "p1") @@ ("c2" :> "p1")
MCOfProject  == ("p1" :> {"a1"}) @@ ("p2" :> {})
MCSlug       == ("A" :> "x") @@ ("B" :> "x")
(* p1's document has two characters, an archived binding and a recipe. *)
MCEarlier    == ("p2" :> EmptyContext) @@ ("p1" :>
  [characters |-> {[id |-> c, archived |-> FALSE, primary |-> NoAsset, refs |-> {}]
                     : c \in {"A", "B"}},
   references |-> {[id |-> BindingId("a1", "character", "A"), asset |-> "a1",
                    purpose |-> "character", character |-> "A", archived |-> TRUE]},
   recipes    |-> {[id |-> "R", archived |-> FALSE]}])
MCSaved      == {<<>>, <<"A", "B">>}
MCCopied     == ("a" :> "a") @@ ("b" :> "w") @@ ("w" :> "w")
MCReusable   == {[images |-> <<"w", "a">>, mask |-> "w", mentions |-> <<2>>]}
MCStandard   == ("openai" :> "o") @@ ("fal" :> "f")
MCImports    == {[provider |-> "c", conn |-> "i"], [provider |-> "openai", conn |-> "i"]}
MCScopeParent == ("p1" :> "w1") @@ ("p2" :> "w2") @@ ("c1" :> "p1") @@ ("c2" :> "p2")
MCSample     == [w |-> "ws", p |-> "ps", c |-> "cs"]

panelsVars == <<focus, libraryVars, reviewVars, scopeVars, contextVars, favoriteVars,
                inputVars, maskVars, profileVars, managedVars>>

PanelsInit ==
    /\ focus \in {"library", "reviews", "scopes", "context", "favorites", "input",
                  "mask", "profiles", "managed"}
    /\ LibraryInit /\ ReviewsInit /\ ScopesInit /\ ContextInit /\ FavoritesInit
    /\ InputInit /\ MaskInit /\ ProfilesInit /\ ManagedInit
    /\ focus # "context" => project = "p1"
    /\ focus # "favorites" => favorites = <<Default>>
    /\ focus # "profiles" => configured = "none"

PanelsNext ==
    /\ UNCHANGED focus
    /\ \/ /\ focus = "library" /\ LibraryNext
          /\ UNCHANGED <<reviewVars, scopeVars, contextVars, favoriteVars, inputVars,
                         maskVars, profileVars, managedVars>>
       \/ /\ focus = "reviews" /\ ReviewsNext
          /\ UNCHANGED <<libraryVars, scopeVars, contextVars, favoriteVars, inputVars,
                         maskVars, profileVars, managedVars>>
       \/ /\ focus = "scopes" /\ ScopesNext
          /\ UNCHANGED <<libraryVars, reviewVars, contextVars, favoriteVars, inputVars,
                         maskVars, profileVars, managedVars>>
       \/ /\ focus = "context" /\ ContextNext
          /\ UNCHANGED <<libraryVars, reviewVars, scopeVars, favoriteVars, inputVars,
                         maskVars, profileVars, managedVars>>
       \/ /\ focus = "favorites" /\ FavoritesNext
          /\ UNCHANGED <<libraryVars, reviewVars, scopeVars, contextVars, inputVars,
                         maskVars, profileVars, managedVars>>
       \/ /\ focus = "input" /\ InputNext
          /\ UNCHANGED <<libraryVars, reviewVars, scopeVars, contextVars, favoriteVars,
                         maskVars, profileVars, managedVars>>
       \/ /\ focus = "mask" /\ MaskNext
          /\ UNCHANGED <<libraryVars, reviewVars, scopeVars, contextVars, favoriteVars,
                         inputVars, profileVars, managedVars>>
       \/ /\ focus = "profiles" /\ ProfilesNext
          /\ UNCHANGED <<libraryVars, reviewVars, scopeVars, contextVars, favoriteVars,
                         inputVars, maskVars, managedVars>>
       \/ /\ focus = "managed" /\ ManagedNext
          /\ UNCHANGED <<libraryVars, reviewVars, scopeVars, contextVars, favoriteVars,
                         inputVars, maskVars, profileVars>>

PanelsSpec == PanelsInit /\ [][PanelsNext]_panelsVars

\* Every panel's variables keep their types.
PanelsTypeOK ==
    CASE focus = "library"   -> LibraryTypeOK
      [] focus = "reviews"   -> ReviewsTypeOK
      [] focus = "scopes"    -> ScopesTypeOK
      [] focus = "context"   -> ContextTypeOK
      [] focus = "favorites" -> FavoritesTypeOK
      [] focus = "input"     -> InputTypeOK
      [] focus = "mask"      -> MaskTypeOK
      [] focus = "profiles"  -> ProfilesTypeOK
      [] focus = "managed"   -> ManagedTypeOK
================================================================================
