---------------------------- MODULE MCSubmission ----------------------------
(* Instance of Submission: no sink, one sink of each kind, two HTTP sinks  *)
(* that may get out of step, and HTTP sinks beside the direct ones.        *)
EXTENDS Submission

MCSetups ==
  { <<>>, <<"http">>, <<"mqtt">>, <<"stdout">>, <<"http", "http">>,
    <<"http", "mqtt">>, <<"stdout", "http">> }

MCHttpSetups == { <<"http">> }

=============================================================================
