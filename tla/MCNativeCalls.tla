---------------------------- MODULE MCNativeCalls ----------------------------
EXTENDS NativeCalls, TLC

CONSTANTS s1, s2

MCEnds == {<<"exited", 3>>}

MCHostEnvironment == ("A" :> "0") @@ ("B" :> "0")

Entry(k, v) == [key |-> k, value |-> v]

Good == [flags |-> {"acks"}, ports |-> {1, 2}, out |-> TRUE, executable |-> "text",
         argument |-> "empty", cwd |-> "empty", envMode |-> "overlay",
         env |-> <<Entry("A", "1"), Entry("C", "nul"), Entry("C", "2")>>,
         size |-> [rows |-> 1, columns |-> 65535, pixels |-> 0],
         options |-> [batchDelay |-> 0, pollInterval |-> 1, readBuffer |-> 4096, batchMax |-> 0,
                      inflight |-> 1, external |-> 0, queueMax |-> 0]]

Other == [Good EXCEPT !.envMode = "replace", !.options.queueMax = 1073741824,
                      !.options.batchMax = 131072, !.cwd = "text"]

Bad == {[Good EXCEPT !.flags = {"acks", "unknown"}, !.ports = {0}], [Good EXCEPT !.ports = {0, 2}],
        [Good EXCEPT !.out = FALSE], [Good EXCEPT !.executable = "empty"],
        [Good EXCEPT !.executable = "notUtf8"], [Good EXCEPT !.argument = "nullData"],
        [Good EXCEPT !.argument = "nul"], [Good EXCEPT !.cwd = "nul"],
        [Good EXCEPT !.envMode = "unknown"], [Good EXCEPT !.size.rows = 0],
        [Good EXCEPT !.size.columns = 65536], [Good EXCEPT !.size.pixels = 65536],
        [Good EXCEPT !.env = <<Entry("A", "missing")>>], [Good EXCEPT !.env = <<Entry("empty", "1")>>],
        [Good EXCEPT !.env = <<Entry("A", "nul")>>], [Good EXCEPT !.env = <<Entry("nul", "1")>>],
        [Good EXCEPT !.env = <<Entry("A", "notUtf8")>>, !.envMode = "clear"]}

MCRequestsOf == (s1 :> (Bad \cup {Good})) @@ (s2 :> {Other})
=============================================================================
