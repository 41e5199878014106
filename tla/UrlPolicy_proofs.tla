-------------------------- MODULE UrlPolicy_proofs --------------------------
(***************************************************************************)
(* The promise of mergeSiteProfiles, for every roster of profiles, every   *)
(* URL and every control: a composite is never more permissive on a site   *)
(* than that site's own profile.                                           *)
(***************************************************************************)
EXTENDS UrlPolicy, TLAPS

(* A composite of one profile is that profile.                              *)
LEMMA SingleMerge ==
  ASSUME NEW member
  PROVE  MergeSiteProfiles({member}) = member
PROOF BY DEF MergeSiteProfiles

(* Every list of a composite of several holds the member's own list.        *)
LEMMA MergedLists ==
  ASSUME NEW profiles, NEW member \in profiles, ~ \E p \in profiles : profiles = {p}
  PROVE  LET m == MergeSiteProfiles(profiles) IN
         /\ member.deniedHosts \subseteq m.deniedHosts
         /\ member.auth \subseteq m.auth
         /\ member.actions \subseteq m.actions
         /\ member.autocomplete \subseteq m.autocomplete
         /\ member.transactions \subseteq m.transactions
         /\ member.mutations \subseteq m.mutations
         /\ m.insecureHttp = FALSE
         /\ m.privateNetworks = FALSE
PROOF BY DEF MergeSiteProfiles

(* What a list matches, a longer list matches.                              *)
LEMMA HostsMonotone ==
  ASSUME NEW host, NEW small, NEW large, small \subseteq large,
         HostMatchesAllowlist(host, small)
  PROVE  HostMatchesAllowlist(host, large)
PROOF BY DEF HostMatchesAllowlist

LEMMA EndpointsMonotone ==
  ASSUME NEW url, NEW small, NEW large, small \subseteq large, EndpointHit(url, small)
  PROVE  EndpointHit(url, large)
PROOF BY DEF EndpointHit
(* A URL on a site the member admits that passes the composite passes the   *)
(* member: checkUrl is the same chain of refusals over longer lists.        *)
LEMMA UrlDeniedMore ==
  ASSUME NEW profiles, NEW member \in profiles, ~ \E p \in profiles : profiles = {p},
         NEW url, NEW context, NEW resolved,
         HostMatchesAllowlist(url.host, member.allowedHosts),
         CheckUrl(url, MergeSiteProfiles(profiles), context, resolved).allowed
  PROVE  CheckUrl(url, member, context, resolved).allowed
PROOF
  <1> DEFINE m == MergeSiteProfiles(profiles)
  <1>1. /\ SchemePermitted(url, m)
        /\ ~HostMatchesAllowlist(url.host, m.deniedHosts)
        /\ ~(context \in AuthBlockedContexts /\ IsAuthPathBlocked(url, m))
        /\ PublicAddress(url, m, context, resolved)
    BY DEF CheckUrl, Denied, Allowed
  <1>2. SchemePermitted(url, member)
    BY <1>1, MergedLists DEF SchemePermitted
  <1>3. ~HostMatchesAllowlist(url.host, member.deniedHosts)
    BY <1>1, MergedLists, HostsMonotone
  <1>4. ~(context \in AuthBlockedContexts /\ IsAuthPathBlocked(url, member))
    <2>1. member.auth \subseteq m.auth
      BY MergedLists
    <2>2. QED
      BY <1>1, <2>1 DEF IsAuthPathBlocked
  <1>5. PublicAddress(url, member, context, resolved)
    <2>1. m.privateNetworks = FALSE
      BY MergedLists
    <2>2. QED
      BY <1>1, <2>1 DEF PublicAddress
  <1>6. QED
    BY <1>2, <1>3, <1>4, <1>5 DEF CheckUrl, Allowed

(* "The composite is therefore never more permissive on any one site than   *)
(* that site's own profile" (mergeProfiles.ts:10-13), for every roster a    *)
(* session can be given, every URL, control and field.                      *)
THEOREM CompositeDeniesMore ==
  ASSUME NEW profiles, Mergeable(profiles), NEW member \in profiles,
         NEW url, NEW context, NEW resolved, NEW method, NEW control, NEW field
  PROVE  DeniesMore(MergeSiteProfiles(profiles), member, url, context, resolved, method, control, field)
PROOF
  <1> DEFINE m == MergeSiteProfiles(profiles)
  <1>1. CASE \E p \in profiles : profiles = {p}
    <2>1. m = member
      BY <1>1, SingleMerge
    <2>2. QED
      BY <2>1 DEF DeniesMore
  <1>2. CASE ~ \E p \in profiles : profiles = {p}
    <2>1. HostMatchesAllowlist(url.host, member.allowedHosts) /\ CheckUrl(url, m, context, resolved).allowed
            => CheckUrl(url, member, context, resolved).allowed
      BY <1>2, UrlDeniedMore
    <2>2. IsProtectedEndpoint(url, member, method) => IsProtectedEndpoint(url, m, method)
      BY <1>2, MergedLists, EndpointsMonotone DEF IsProtectedEndpoint
    <2>3. ActionBlocked(control, member) => ActionBlocked(control, m)
      <3>1. /\ member.actions \subseteq m.actions
            /\ member.transactions \cup member.mutations \subseteq m.transactions \cup m.mutations
        BY <1>2, MergedLists
      <3>2. QED
        BY <3>1, EndpointsMonotone DEF ActionBlocked
    <2>4. FieldBlocked(field, member) => FieldBlocked(field, m)
      <3>1. member.autocomplete \subseteq m.autocomplete
        BY <1>2, MergedLists
      <3>2. QED
        BY <3>1 DEF FieldBlocked
    <2>5. QED
      BY <2>1, <2>2, <2>3, <2>4 DEF DeniesMore
  <1>3. QED
    BY <1>1, <1>2
=============================================================================
