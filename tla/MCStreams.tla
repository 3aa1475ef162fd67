----------------------------- MODULE MCStreams -----------------------------
EXTENDS GitHubLabels

\* One request of each kind of rule.
EachRule ==
  {<<"auth/verify", "POST">>, <<"webhooks", "POST">>, <<"claim", "POST">>,
   <<"health", "GET">>, <<"terms", "GET">>, <<"agents", "POST">>,
   <<"events", "GET">>}

SmallLimits == [strict |-> 1, burst |-> 2, general |-> 3, health |-> 3]

\* The three topics share nothing but the clock, so a behaviour is about one:
\* the streams beside the request that is one of them (which need one tick to
\* become old), the updates beside a webhook, the window of any other request.
\* Once the labels are disturbed, only the updates of a closed bounty go on to
\* their end, for the sake of their token.
Apart ==
  LET streams == followed = <<"events", "GET">>
      updates == followed = <<"webhooks", "POST">>
  IN  /\ streams \/ \A s \in Streams : stream[s].at = "new"
      /\ streams \/ \A e \in Events : publication[e] = Unstarted
      /\ updates \/ (status = "open" /\ update = [h \in Handlers |-> Idle])
      /\ updates => request_log = <<>>
      /\ disturbed => Updating # {} /\ status = "closed"
      /\ streams => now <= 1

Interchangeable ==
  Permutations(Addresses) \cup Permutations(Streams) \cup Permutations(Events)
  \cup Permutations(Handlers)
=============================================================================
