--------------------------- MODULE MCLiveSockets ---------------------------
(* Pairing and live sockets with two rows, one phone, two hosts and one      *)
(* handler; the one code value can be drawn again once it is spent.  What is *)
(* issued is three invitations and no ticket, or a ticket and two keys.       *)
EXTENDS LiveSockets

CONSTANTS d1, d2, ana, c1, t1, home, hall, s1

TwoIds == {d1, d2}
OnePhone == {ana}
OneCode == {c1}
OneTicket == {t1}
TwoHosts == {home, hall}
OneSocket == {s1}
Budget(permanent, guest, tickets, hosts) ==
    [k \in Invitation \cup {"hosts"} |->
        CASE k = "permanent" -> permanent [] k = "guest" -> guest
          [] k = "ticket" -> tickets [] k = "hosts" -> hosts]
ThreeBudgets == {Budget(2, 1, 0, 1), Budget(2, 0, 1, 0), Budget(0, 1, 1, 0)}

=============================================================================
