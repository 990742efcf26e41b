-------------------------- MODULE MCRendererCache ---------------------------
(* Small instances of RendererCache for TLC.                               *)
EXTENDS RendererCache, TLC

CONSTANTS m1, m2, m3, m4, k, ns1, ns2, p1, p2, v1, v2, noLabel, noPath

\* m1 and m2: two Manifests of owner k in ns1, m1 with an OCI chart
\* extracted to p1, m2 with a chart from a Helm repository (no path);
\* m3: a Manifest of an owner with the same label in ns2 (another Kyma),
\* whose chart path p2 ships a rendered manifest; m4: a Manifest without
\* a cache-key label.
MCManifests == {m1, m2, m3, m4}
MCLabel == m1 :> k @@ m2 :> k @@ m3 :> k @@ m4 :> noLabel
MCNamespace == m1 :> ns1 @@ m2 :> ns1 @@ m3 :> ns2 @@ m4 :> ns1
MCChartPath == m1 :> p1 @@ m2 :> noPath @@ m3 :> p2 @@ m4 :> noPath

\* m1 and m2 of owner k in ns1, both with chart path p1 (the stale
\* rendering run uses m1 alone, with its overrides edited)
MCSharedManifests == {m1, m2}
MCSharedLabel == m1 :> k @@ m2 :> k
MCSharedNamespace == m1 :> ns1 @@ m2 :> ns1
MCSharedChartPath == m1 :> p1 @@ m2 :> p1

\* m1 alone (its overrides may change)
MCOneManifest == {m1}
=============================================================================
