------------------------------- MODULE Retailers ------------------------------
(* The retailer modules of backend/scrapers together. Each runs in a worker       *)
(* process of its own (StoreLanes), so that none sees the state of another and    *)
(* their steps come in any order.                                                 *)
EXTENDS ParfumzentrumSearch, DelooxSearch, SabinaSearch, EasycosmeticSearch, ShopifySearch

RetailSpec == PzSpec /\ DxSpec /\ SbSpec /\ EcSpec /\ ShSpec

(* The safety of each retailer module. *)
RetailInv == PzInv /\ DxInv /\ SbInv /\ EcInv /\ ShInv

(* Each retailer module keeps the promise of StoreSearch: what it reports as verified is   *)
(* an answer of the store. Of ParfumCity it is a response, which may be one it could not    *)
(* read; not so of Bplatz, of which a failed search is a verified one.                      *)
StoresKeepPromise ==
  /\ PzPromise!StoreInit /\ [][PzPromise!StoreStep]_pzVars
  /\ DxPromise!StoreInit /\ [][DxPromise!StoreStep]_dx
  /\ SbPromise!StoreInit /\ [][SbPromise!StoreStep]_sb
  /\ EcPromise!StoreInit /\ [][EcPromise!StoreStep]_ec
  /\ shop \in {"orioudh", "perfumemarket"} => ShPromise!StoreInit
  /\ [][(shop \in {"orioudh", "perfumemarket"}) => ShPromise!StoreStep]_shVars
  /\ shop = "parfumcity" => ShResponse!StoreInit
  /\ [][shop = "parfumcity" => ShResponse!StoreStep]_shVars
===============================================================================
