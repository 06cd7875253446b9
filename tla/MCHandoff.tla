----------------------------- MODULE MCHandoff -----------------------------
(* Handoff for TLC, and its hop count against session_ids taken literally. *)
EXTENDS Handoff

\* session_ids: the sessions along a chain, an end that starts the next link once.
SessionIds(links) ==
  FoldLeft(LAMBDA ids, l : IF ids # <<>> /\ Last(ids) = l[1] THEN Append(ids, l[2])
                           ELSE ids \o l, <<>>, links)

ASSUME HopsAgree ==
  \A links \in SeqOf(Sessions \X Sessions, 3) :
    \A s \in UNION {{links[i][1], links[i][2]} : i \in DOMAIN links} :
      HopOf(links, s) = SelectInSeq(SessionIds(links), LAMBDA t : t = s)
=============================================================================
