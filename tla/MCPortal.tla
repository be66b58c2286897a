-------------------------------- MODULE MCPortal -------------------------------
(***************************************************************************)
(* Small instances of the parts, each just large enough for its hazards.   *)
(***************************************************************************)
EXTENDS Portal, TLC

CONSTANTS u1, u2, u3, s1, s2, s3, e1, a1, c1, c2, b1, b2, f1, g1, h1, d1, d2, t1, p1,
          cat, sub1, sub2, loc, faq

MCProfiles == {[events |-> {"ticket.created"}, group |-> group, individuals |-> ~group] : group \in BOOLEAN}

MCRow0 == [t \in 1 .. 4 |-> [requester |-> IF t % 2 = 0 THEN u2 ELSE u1,
                             status |-> IF t < 3 THEN "Open" ELSE "Closed",
                             age |-> t \div 2]]

MCParent == [s \in {sub1, sub2} |-> cat]

MCWatch == {TicketsKey, CommentsKey, FilesKey, ActiveKey, UsersKey, CategoriesKey, ConfigsKey, BackupsKey,
            ModeKey, UnreadKey}
================================================================================
