---------------------------- MODULE MCOutbound ----------------------------
(* Small instances of Outbound for TLC.                                    *)
EXTENDS Outbound, TLC

CONSTANTS work, home, ops, ext

(* One message for outside recipients and the operator, one for the        *)
(* operator alone.                                                         *)
MCSubmissions ==
    {[inbox |-> work, rcpt |-> {ops, ext}], [inbox |-> home, rcpt |-> {ops}]}

(* Both inboxes configured; or the second one, which ApproveAs may have    *)
(* chosen, lost its identity; or the stamped one was removed.              *)
MCConfigs ==
    {[senders |-> {work, home}, identities |-> {work, home}],
     [senders |-> {work, home}, identities |-> {work}],
     [senders |-> {home}, identities |-> {home}]}

OneConfig == {[senders |-> {work, home}, identities |-> {work}]}

Handlers == Permutations(Threads)
=============================================================================
