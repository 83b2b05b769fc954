----------------------------- MODULE MCSupportMail -----------------------------
(* One ticket with its creation and one reply, and two senders of mail. *)
EXTENDS SupportMail, TLC

CONSTANTS open1, reply1, s1, s2
================================================================================
