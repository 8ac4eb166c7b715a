---------------------------- MODULE MCScreening ----------------------------
(* Small instances of Screening: lengths around the window, the caps and   *)
(* the smallest splittable window, and one message for every way the       *)
(* extraction can lose text.                                               *)
EXTENDS Screening

MCPart(k, d, n, key) == [kind |-> k, depth |-> d, len |-> n, key |-> key, bad |-> "no"]

MCMail(ps) == [readable |-> TRUE, trust |-> "trusted", rcpt |-> "to", parts |-> ps]

Multi == MCPart("multi", 0, 0, "x")

(* Bodies of every length up to and past the part cap.                     *)
Bodies == {MCMail(<<MCPart("body", 0, n, "x")>>) : n \in 0..11}

(* Two variants, equal or not; a body and an attachment.                   *)
Pairs ==
    {MCMail(<<Multi, MCPart("body", 1, n, "x"), MCPart(k, 1, m, key)>>) :
        n \in {3, 8}, m \in {3, 7}, k \in {"body", "text"}, key \in {"x", "y"}}

(* Too deep, too many, too large, broken, unreadable, an attached message. *)
Hard ==
    {MCMail(<<Multi, MCPart("multi", 1, 0, "x"), MCPart("body", 2, 4, "x"),
              MCPart("body", 1, 3, "y")>>),
     MCMail(<<Multi, MCPart("body", 1, 2, "x"), MCPart("binary", 1, 3, "x"),
              MCPart("text", 1, 2, "y")>>),
     MCMail(<<Multi, MCPart("body", 1, 2, "x"), MCPart("binary", 1, 30, "x")>>),
     MCMail(<<MCPart("nested", 0, 5, "x"), MCPart("body", 1, 5, "y")>>),
     MCMail(<<MCPart("nested", 0, 11, "x"), MCPart("body", 1, 5, "y")>>)}
    \cup {MCMail(<<[MCPart("body", 0, 4, "x") EXCEPT !.bad = b]>>) : b \in {"head", "read"}}
    \cup {[MCMail(<<>>) EXCEPT !.readable = FALSE]}
    \cup {[MCMail(<<MCPart("body", 0, 3, "x")>>) EXCEPT !.trust = t, !.rcpt = r] :
             t \in {"untrusted", "odd"}, r \in {"self", "cc", "none"}}

MCMails == Bodies \cup Pairs \cup Hard

MCLabelFactor == [l \in {"instruction", "secrets"} |-> l]
MCLabelAttachmentFactor == [l \in {"instruction", "secrets"} |->
    IF l = "instruction" THEN "attachment" ELSE NoFactor]
MCFactorPoints == [f \in {"instruction", "secrets", "attachment"} |->
    IF f = "attachment" THEN 30 ELSE 40]
MCSenderBaselines == [t \in {"trusted", "untrusted", "unknown"} |->
    CASE t = "trusted" -> 0 [] t = "untrusted" -> 61 [] t = "unknown" -> 30]
MCRecipientAdjust == [r \in {"to", "cc", "bcc"} |->
    CASE r = "to" -> 0 [] r = "cc" -> 5 [] r = "bcc" -> 10]
=============================================================================
