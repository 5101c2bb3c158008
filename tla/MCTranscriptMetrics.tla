------------------------ MODULE MCTranscriptMetrics ------------------------
(* Tool calls that take every branch of the classification. *)
EXTENDS TranscriptMetrics

Bash(words, done, code, diagnostic) ==
    [tool |-> "bash", words |-> words, done |-> done, exit |-> code,
     diagnostic |-> diagnostic, path |-> "none"]

File(tool, path) ==
    [tool |-> tool, words |-> {}, done |-> TRUE, exit |-> None,
     diagnostic |-> "none", path |-> path]

AllCalls ==
    {Bash({"build"}, TRUE, 0, "none"), Bash({"build"}, TRUE, 1, "generated"),
     Bash({"build"}, FALSE, None, "none"), Bash({"check"}, TRUE, 0, "none"),
     Bash({"test"}, TRUE, 0, "none"), Bash({"test", "check"}, TRUE, 1, "mixed"),
     Bash({"build", "check"}, TRUE, 0, "none"), Bash({"run"}, TRUE, 1, "none"),
     Bash({"migrate", "build"}, TRUE, 1, "handwritten"), Bash({"generate"}, TRUE, 0, "none"),
     File("edit", "api"), File("apply_patch", "source"), File("read", "api"), File("grep", "none")}

=============================================================================
