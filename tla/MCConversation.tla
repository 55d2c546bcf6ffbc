--------------------------- MODULE MCConversation ---------------------------
EXTENDS Conversation

Tool(name, strict) == [name |-> name, strict |-> strict]

MCPlain ==
    [tools |-> <<Tool("f", FALSE), Tool("g", FALSE)>>, mode |-> "-", name |-> "-",
     parallel |-> TRUE, max |-> {32}, stop |-> FALSE, image |-> "-", extras |-> FALSE]

\* Every choice, with and without tools, and every other option by itself.
MCOtherWants ==
    LET WithoutTools == [MCPlain EXCEPT !.tools = << >>]
        Modes == {<<"named", "f">>, <<"named", "unknown">>}
                       \cup {<<mode, "-">> : mode \in {"-", "auto", "none", "required"}}
    IN  {[base EXCEPT !.mode = choice[1], !.name = choice[2], !.parallel = parallel] :
            base \in {MCPlain, WithoutTools}, choice \in Modes, parallel \in BOOLEAN}
        \cup {[MCPlain EXCEPT !.max = max] : max \in {{}, {0}, {8}, {65}}}
        \cup {[MCPlain EXCEPT !.image = image] : image \in {"url", "inline"}}
        \cup {[MCPlain EXCEPT !.stop = TRUE], [MCPlain EXCEPT !.extras = TRUE],
              [MCPlain EXCEPT !.tools = <<Tool("f", TRUE)>>],
              [MCPlain EXCEPT !.tools = <<Tool("f", FALSE), Tool("f", FALSE)>>]}
=============================================================================
