---------------------------- MODULE MCBundleStore ----------------------------
(***************************************************************************)
(* Instances of BundleStore.  Two versions, of which the first exists      *)
(* twice (m1 and m1x), as from a publisher that reused a number: enough    *)
(* for a Put that fails halfway, for a version directory that is filled    *)
(* again with other content, and for a superseded one that is pruned.      *)
(***************************************************************************)
EXTENDS BundleStore

CONSTANTS m1, m1x, m2, a, b

MCManifest == {m1, m1x, m2}
MCBlob == {a, b}
MCVersionOf == [m \in MCManifest |-> IF m = m2 THEN 2 ELSE 1]
MCFilesOf == [m \in MCManifest |->
  CASE m = m1 -> {a} [] m = m1x -> {b} [] OTHER -> {a, b}]

=============================================================================
