---------------------------- MODULE RatchetRestore ----------------------------
(***************************************************************************)
(* RatchetChannel on devices whose account is restored: AuthService.logout *)
(* destroys the database with the ratchet sessions, restoreAccount derives *)
(* the same identity from the recovery phrase, and a backup holds messages *)
(* but no sessions.  RatchetMessageCodec._state finds no session and       *)
(* starts one from the static secret of the two identities.                *)
(***************************************************************************)
EXTENDS RatchetChannel

\* Key pairs are random, so keygen does not start again.
Restore(p) ==
    /\ session' = [session EXCEPT ![p] = InitSession(p, Peer(p), p = Initiator)]
    /\ UNCHANGED <<keygen, sealed, opened>>

RestoreNext == Next \/ \E p \in Party : Restore(p)

RestoreSpec == Init /\ [][RestoreNext]_vars

\* "each message derives a single-use key": also on a device whose account
\* was restored between two messages.
RestoredKeysSingleUse == KeySealsOneMessage

=============================================================================
