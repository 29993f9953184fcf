----------------------------- MODULE MCShopOrder -----------------------------
(* Instances of ShopOrderHistory for TLC. *)
EXTENDS ShopOrderHistory, TLC

CONSTANTS w1, w2, u1, u2, o1, o2, tk, bu, sh, i1, i2, i3, i4, i5, i6

\* One order: a ticket with or without a bundle, or two bundles.
MCKind == tk :> "ticket" @@ bu :> "bundle"
MCCarts == {tk :> 1 @@ bu :> 0, tk :> 1 @@ bu :> 1, tk :> 0 @@ bu :> 2}
MCStock == tk :> 1 @@ bu :> 2

\* Two orders compete for the last bundle; shirts (sh) need no fulfilment.
MCPairKind == bu :> "bundle" @@ sh :> "plain"
MCPairCarts == {bu :> 1 @@ sh :> 0, bu :> 1 @@ sh :> 2}
MCPairStock == bu :> 1 @@ sh :> 3

=============================================================================
