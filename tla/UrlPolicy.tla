----------------------------- MODULE UrlPolicy -----------------------------
(***************************************************************************)
(* What a site profile lets an agent session visit, touch and request      *)
(* (packages/policy), and the composition of several profiles into the one *)
(* a session runs under.                                                   *)
(*                                                                         *)
(* A host is its sequence of labels, and a list entry [base, wild] names a *)
(* host or, with its wildcard, everything below it.  A pattern is a name:  *)
(* "hits" of a URL are the patterns whose expression matches it, "raw" the *)
(* ones whose source appears in it as it is, and Broken the patterns that  *)
(* do not compile.  Whether an address is public is data.                  *)
(***************************************************************************)
EXTENDS Naturals, Sequences

CONSTANTS Null, Broken, SecretTokens

Allowed == [allowed |-> TRUE, code |-> Null]
Denied(code) == [allowed |-> FALSE, code |-> code]

(* Labels are compared whole: "*.ebay.ca" is any depth below ebay.ca and    *)
(* neither ebay.ca itself nor notebay.ca.                                   *)
EntryMatches(host, entry) ==
  IF entry.wild
  THEN /\ Len(host) > Len(entry.base)
       /\ SubSeq(host, Len(host) - Len(entry.base) + 1, Len(host)) = entry.base
  ELSE host = entry.base

HostMatchesAllowlist(host, entries) == \E e \in entries : EntryMatches(host, e)

(* An auth pattern that does not compile is matched as plain text: a deny   *)
(* rule never widens the surface.                                           *)
IsAuthPathBlocked(url, profile) ==
  \E p \in profile.auth : p \in (IF p \in Broken THEN url.raw ELSE url.hits)

(* Sign-in pages are closed to the tab, not to what an allowed page loads.  *)
AuthBlockedContexts == {"navigation", "redirect", "popup", "frame"}

SchemePermitted(url, profile) ==
  url.scheme = "https" \/ (url.scheme = "http" /\ profile.insecureHttp)

(* "resolved" is what the resolver answered at this call: Null when it      *)
(* failed, else the set of classes of the addresses.                        *)
PublicAddress(url, profile, context, resolved) ==
  CASE url.literal # Null -> profile.privateNetworks \/ url.literal = "public"
    [] url.literal = Null /\ context = "subresource" -> TRUE
    [] OTHER -> /\ resolved # Null /\ resolved # {}
                /\ profile.privateNetworks \/ resolved \subseteq {"public"}

(* Deny wins, and before the allowlist: no union of profiles re-admits a    *)
(* host one of them has ruled out.                                          *)
CheckUrl(url, profile, context, resolved) ==
  IF ~SchemePermitted(url, profile) THEN Denied("SCHEME_DENIED")
  ELSE IF HostMatchesAllowlist(url.host, profile.deniedHosts) THEN Denied("ORIGIN_DENIED")
  ELSE IF ~HostMatchesAllowlist(url.host, profile.allowedHosts) THEN Denied("ORIGIN_DENIED")
  ELSE IF context \in AuthBlockedContexts /\ IsAuthPathBlocked(url, profile) THEN Denied("ACTION_BLOCKED")
  ELSE IF ~PublicAddress(url, profile, context, resolved) THEN Denied("PRIVATE_NETWORK_DENIED")
  ELSE Allowed

(* Endpoint patterns that do not compile are skipped.                       *)
EndpointHit(url, patterns) == \E p \in patterns \ Broken : p \in url.hits

(* Reading an account's state is not changing it; a method nobody named is  *)
(* taken for a change.                                                      *)
IsProtectedEndpoint(url, profile, method) ==
  \/ EndpointHit(url, profile.transactions)
  \/ method \notin {"GET", "HEAD"} /\ EndpointHit(url, profile.mutations)

(* A control is judged by its name or text and by where it leads, whatever  *)
(* method it would use.  "says": the action patterns its words contain.     *)
ActionBlocked(control, profile) ==
  \/ control.says \cap profile.actions # {}
  \/ \E target \in control.targets : EndpointHit(target, profile.transactions \cup profile.mutations)

(* A field is secret by its type, a token of its own, the form around it or *)
(* its name.                                                                *)
FieldBlocked(field, profile) ==
  \/ field.password
  \/ field.tokens \cap (SecretTokens \cup profile.autocomplete) # {}
  \/ field.inSensitiveForm
  \/ field.namedSecret

(* --------------------------- composed profiles -------------------------- *)

TestOnly(profile) == profile.insecureHttp \/ profile.privateNetworks

Destinations(profiles) == {p.destination : p \in profiles} \ {Null}

(* Refused compositions: none, two of one id (a set has none), a test-only  *)
(* escape among several, two different destinations.                        *)
Mergeable(profiles) ==
  /\ profiles # {}
  /\ \/ \E p \in profiles : profiles = {p}
     \/ /\ \A p \in profiles : ~TestOnly(p)
        /\ \A p, q \in profiles : p.id = q.id => p = q
        /\ \A d, e \in Destinations(profiles) : d = e

(* MergeSitesOnly: a variant that joins the allowlists of the members only. *)
MergeSitesOnly(profiles) ==
  [(CHOOSE p \in profiles : TRUE) EXCEPT !.allowedHosts = UNION {p.allowedHosts : p \in profiles}]

MergeSiteProfiles(profiles) ==
  IF \E p \in profiles : profiles = {p} THEN CHOOSE p \in profiles : TRUE
  ELSE [ id              |-> {p.id : p \in profiles},
         allowedHosts    |-> UNION {p.allowedHosts : p \in profiles},
         deniedHosts     |-> UNION {p.deniedHosts : p \in profiles},
         auth            |-> UNION {p.auth : p \in profiles},
         actions         |-> UNION {p.actions : p \in profiles},
         autocomplete    |-> UNION {p.autocomplete : p \in profiles},
         transactions    |-> UNION {p.transactions : p \in profiles},
         mutations       |-> UNION {p.mutations : p \in profiles},
         insecureHttp    |-> FALSE,
         privateNetworks |-> FALSE,
         destination     |-> IF Destinations(profiles) = {} THEN Null
                             ELSE CHOOSE d \in Destinations(profiles) : TRUE ]

(* What the member that admits a host forbids there, the composite forbids. *)
DeniesMore(merged, member, url, context, resolved, method, control, field) ==
  /\ HostMatchesAllowlist(url.host, member.allowedHosts) /\ CheckUrl(url, merged, context, resolved).allowed
       => CheckUrl(url, member, context, resolved).allowed
  /\ IsProtectedEndpoint(url, member, method) => IsProtectedEndpoint(url, merged, method)
  /\ ActionBlocked(control, member) => ActionBlocked(control, merged)
  /\ FieldBlocked(field, member) => FieldBlocked(field, merged)
=============================================================================
