----------------------------- MODULE MCRdMaterials -----------------------------
(***************************************************************************)
(* RdMaterials on few documents.  A setup is a group of requests with what *)
(* they may say; each is a question about operations that meet on the same *)
(* request line or on the same layers.                                     *)
(***************************************************************************)
EXTENDS RdMaterials

CONSTANTS p1, p2, r1, r2, h1, h2, x1, c1, u1, u2, g1, g2, k1, k2, k3

Line(r, qty) == [of |-> r, qty |-> qty]

\* Two requests at a time on one request line: actions, their rollback and
\* the void of the request.
SharedLine ==
    [ops |-> {"need", "act", "react", "unneed", "close"}, docs |-> {r1, Project}, layers |-> <<>>,
     needs |-> {2}, moves |-> {}, takes |-> {},
     acts |-> {<<"start", 1>>, <<"accept", 1>>, <<"cancel", 1>>}, counts |-> {},
     uses |-> {}, backs |-> {}, tokens |-> Tokens,
     requests |-> 2, events |-> 5]

\* Handoffs, returns and scraps of one line at the same time, and clients that
\* send a handoff twice.
SharedStock ==
    [ops |-> {"need", "act", "react", "handoff", "unhandoff", "scrap", "unscrap"},
     docs |-> {r1, h1, h2, x1}, layers |-> <<1, 1>>,
     needs |-> {2}, moves |-> {<<Line(r1, 1)>>}, takes |-> {<<Line(r1, 1)>>},
     acts |-> {<<"accept", 2>>, <<"return", 1>>}, counts |-> {},
     uses |-> {}, backs |-> {}, tokens |-> Tokens, requests |-> 2, events |-> 7]

\* Histories of one request at a time through both stores and back.
RoundTrip ==
    [ops |-> {"need", "act", "react", "handoff", "unhandoff"}, docs |-> {r1, h1, h2},
     layers |-> <<1, 2>>,
     needs |-> {3}, moves |-> {<<Line(r1, 1)>>, <<Line(r1, 2)>>}, takes |-> {},
     acts |-> {<<"accept", 3>>, <<"return", 1>>, <<"return", 2>>}, counts |-> {},
     uses |-> {}, backs |-> {}, tokens |-> Tokens, requests |-> 1, events |-> 9]

ScrappedStock ==
    [ops |-> {"need", "act", "handoff", "unhandoff", "scrap", "rescrap", "unscrap",
              "count", "uncount"}, docs |-> {r1, r2, h1, x1, c1}, layers |-> <<2>>,
     needs |-> {1}, moves |-> {<<Line(r1, 1)>>, <<Line(r1, 1), Line(r2, 1)>>},
     takes |-> {<<Line(r1, 1)>>, <<Line(r2, 1)>>},
     acts |-> {<<"accept", 1>>, <<"return", 1>>}, counts |-> {0, 2},
     uses |-> {}, backs |-> {}, tokens |-> Tokens, requests |-> 1, events |-> 8]

\* Two requests at a time on what the project picks and gives back, while its
\* handoff is voided.
ProjectStock ==
    [ops |-> {"need", "act", "handoff", "unhandoff", "use", "unuse", "giveback", "ungiveback"},
     docs |-> {r1, h1, u1, g1, g2}, layers |-> <<2>>,
     needs |-> {2}, moves |-> {<<Line(r1, 2)>>}, takes |-> {}, acts |-> {<<"accept", 2>>},
     counts |-> {}, uses |-> {1, 2}, backs |-> {1}, tokens |-> {NoDoc},
     requests |-> 2, events |-> 5]

\* Histories of a project with everything that draws on its store.
ProjectLife ==
    [ops |-> {"need", "act", "unneed", "handoff", "unhandoff", "scrap", "use", "unuse",
              "giveback", "ungiveback", "close"},
     docs |-> {r1, h1, h2, x1, u1, u2, g1, Project}, layers |-> <<1, 1>>,
     needs |-> {2}, moves |-> {<<Line(r1, 1)>>}, takes |-> {<<Line(r1, 1)>>},
     acts |-> {<<"accept", 2>>, <<"return", 1>>}, counts |-> {}, uses |-> {1, 2}, backs |-> {1},
     tokens |-> {NoDoc}, requests |-> 1, events |-> 6]

RdSetups == {SharedLine, SharedStock, RoundTrip, ScrappedStock, ProjectStock, ProjectLife}
Symmetry == Permutations(Procs) \cup Permutations(Tokens)
=============================================================================
