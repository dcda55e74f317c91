--------------------------- MODULE Authorization ---------------------------
(***************************************************************************)
(* Who may do what: the capability hierarchy, the capabilities of a caller *)
(* as authentication has read it, and the checks that views and permission *)
(* classes make of them.  Pure operators; IdempotentMutations and          *)
(* CanonicalReads ask them.                                                *)
(***************************************************************************)

\* What authentication found: is_authenticated, is_active and is_staff.
Caller == [authenticated : BOOLEAN, active : BOOLEAN, staff : BOOLEAN]

AnonymousUser == [authenticated |-> FALSE, active |-> FALSE, staff |-> FALSE]

\* Every capability includes those below it.
CAPABILITY_HIERARCHY ==
    [ read       |-> {"read"},
      contribute |-> {"read", "contribute"},
      moderate   |-> {"read", "contribute", "moderate"},
      admin      |-> {"read", "contribute", "moderate", "admin"} ]

\* MUTANT of UserCapabilities: a deleted account is a user like others.
CapabilitiesOfAnyUser(user) ==
    CAPABILITY_HIERARCHY[IF ~user.authenticated THEN "read"
                         ELSE IF user.staff THEN "admin" ELSE "contribute"]

UserCapabilities(user) ==
    CAPABILITY_HIERARCHY[IF ~user.authenticated \/ ~user.active THEN "read"
                         ELSE IF user.staff THEN "admin" ELSE "contribute"]

HasCapability(user, capability) == capability \in UserCapabilities(user)

\* NotAuthenticated or PermissionDenied: DRF answers both with 403, as
\* JWTAuthentication has no authenticate_header.
RequireCapability(user, capability) ==
    /\ capability # "read" => user.authenticated
    /\ HasCapability(user, capability)

\* The permission classes of the views.
IsContributor(user) == HasCapability(user, "contribute")
IsAuthenticated(user) == user.authenticated
ReadOnlyPublic(method) == method \in {"GET", "HEAD", "OPTIONS"}
=============================================================================
