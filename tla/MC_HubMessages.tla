--------------------------- MODULE MC_HubMessages ---------------------------
(* Model-checking instance of HubMessages. *)
EXTENDS HubMessages

call(kind, args) == [kind |-> kind, args |-> args]

\* Three pages: one waits for answers, one uploads streams, one is called by the server.
MCPages ==
    {[calls |-> {call("invoke", <<"value">>), call("stream", << >>)}, most |-> 2, handlers |-> {},
      replies |-> {"answer"}],
     [calls |-> {call("invoke", <<"observable", "value", "observable">>),
                 call("send", <<"observable", "observable">>)}, most |-> 1, handlers |-> {},
      replies |-> {}],
     [calls |-> {}, most |-> 0, handlers |-> {"h1", "h2"}, replies |-> {"invoke", "other"}]}
=============================================================================
