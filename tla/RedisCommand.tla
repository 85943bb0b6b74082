---------------------------- MODULE RedisCommand ----------------------------
(***************************************************************************)
(* How the Redis plugin reads a command: tokenizeRedis, validateRedis      *)
(* (src/plugins/redis/command.go) and what runRedisWithClient (redis.go)   *)
(* does with the tokens.  A command is a sequence of characters, of which  *)
(* the model tells blanks, quotes and the backslash from the others.       *)
(***************************************************************************)
EXTENDS Integers, Sequences, SequencesExt, FiniteSets

CONSTANTS Chars,     \* the characters sources are made of
          Inputs,    \* records: source, and the words it was written from
          Nil        \* the words of a source nobody wrote word by word

Space == " "
Single == "'"
Double == "\""
Backslash == "\\"
Quotes == {Single, Double}

\* shlex.join of the prelude's OrbyClient.execute: what a Python script sends.
IsBare(word) ==
    word # <<>> /\ \A i \in DOMAIN word : word[i] \notin Quotes \cup {Space, Backslash}
Piece(c) == IF c = Single THEN <<Single, Double, Single, Double, Single>> ELSE <<c>>
Quote(word) ==
    IF IsBare(word) THEN word
    ELSE <<Single>> \o FlattenSeq([i \in DOMAIN word |-> Piece(word[i])]) \o <<Single>>
Join(words) ==
    FlattenSeq([i \in DOMAIN words |->
        IF i = 1 THEN Quote(words[i]) ELSE <<Space>> \o Quote(words[i])])

ASSUME InputsAreWritten ==
    \A i \in Inputs :
        /\ i \in [source : Seq(Chars), words : Seq(Seq(Chars)) \cup {Nil}]
        /\ i.words # Nil => i.source = Join(i.words)
ASSUME NilIsNoQuote == Nil \notin Quotes

VARIABLES
    input,     \* the input that is read
    allow,     \* writesAllowed(request)
    at,        \* characters read
    tokens, token, quote, escaped, started,   \* as in tokenizeRedis
    outcome    \* "reading", "tokens", "error", "browse" or "execute"

reader == <<tokens, token, quote, escaped, started>>
commandVars == <<input, allow, at, reader, outcome>>

Unread ==
    /\ allow \in BOOLEAN
    /\ at = 0
    /\ tokens = <<>>
    /\ token = <<>>
    /\ quote = Nil
    /\ escaped = FALSE
    /\ started = FALSE
    /\ outcome = "reading"

CommandInit == input \in Inputs /\ Unread

-----------------------------------------------------------------------------

char == input.source[at + 1]
More == outcome = "reading" /\ at < Len(input.source)
Advance == at' = at + 1 /\ UNCHANGED <<input, allow, outcome>>

\* After a backslash any character stands for itself.
Escaped ==
    /\ More
    /\ escaped
    /\ token' = Append(token, char)
    /\ started' = TRUE
    /\ escaped' = FALSE
    /\ UNCHANGED <<tokens, quote>>
    /\ Advance

\* A backslash escapes inside quotes of both kinds too.
Escape ==
    /\ More
    /\ ~escaped
    /\ char = Backslash
    /\ escaped' = TRUE
    /\ started' = TRUE
    /\ UNCHANGED <<tokens, token, quote>>
    /\ Advance

Plain == More /\ ~escaped /\ char # Backslash

FaultyQuoted ==            \* either quote ends the quotation
    /\ Plain
    /\ quote # Nil
    /\ \/ char \in Quotes /\ quote' = Nil /\ UNCHANGED token
       \/ char \notin Quotes /\ token' = Append(token, char) /\ UNCHANGED quote
    /\ started' = TRUE
    /\ UNCHANGED <<tokens, escaped>>
    /\ Advance
Quoted ==
    /\ Plain
    /\ quote # Nil
    /\ \/ char = quote /\ quote' = Nil /\ UNCHANGED token
       \/ char # quote /\ token' = Append(token, char) /\ UNCHANGED quote
    /\ started' = TRUE
    /\ UNCHANGED <<tokens, escaped>>
    /\ Advance

OpenQuote ==
    /\ Plain
    /\ quote = Nil
    /\ char \in Quotes
    /\ quote' = char
    /\ started' = TRUE
    /\ UNCHANGED <<tokens, token, escaped>>
    /\ Advance

FaultySeparate ==          \* does not begin a new token
    /\ Plain
    /\ quote = Nil
    /\ char = Space
    /\ IF started THEN /\ tokens' = Append(tokens, token)
                       /\ started' = FALSE
       ELSE UNCHANGED <<tokens, started>>
    /\ UNCHANGED <<token, quote, escaped>>
    /\ Advance
Separate ==
    /\ Plain
    /\ quote = Nil
    /\ char = Space
    /\ IF started THEN /\ tokens' = Append(tokens, token)
                       /\ token' = <<>>
                       /\ started' = FALSE
       ELSE UNCHANGED <<tokens, token, started>>
    /\ UNCHANGED <<quote, escaped>>
    /\ Advance

Letter ==
    /\ Plain
    /\ quote = Nil
    /\ char \notin Quotes \cup {Space}
    /\ token' = Append(token, char)
    /\ started' = TRUE
    /\ UNCHANGED <<tokens, quote, escaped>>
    /\ Advance

\* The end of the source: a trailing escape or an open quote is an error.
EndOfSource ==
    /\ outcome = "reading"
    /\ at = Len(input.source)
    /\ IF escaped \/ quote # Nil
       THEN outcome' = "error" /\ UNCHANGED tokens
       ELSE /\ outcome' = "tokens"
            /\ tokens' = IF started THEN Append(tokens, token) ELSE tokens
    /\ UNCHANGED <<input, allow, at, token, quote, escaped, started>>

\* The allow-list, of which one command stands for all, and the command that
\* runRedisWithClient answers itself.
ReadCommands == {<<"g">>, <<"b">>}
Browse == <<"b">>

\* validateRedis, and the branch to runBrowse; other commands are executed.
Run ==
    /\ outcome = "tokens"
    /\ outcome' = IF tokens = <<>> THEN "error"
                  ELSE IF ~allow /\ tokens[1] \notin ReadCommands THEN "error"
                  ELSE IF tokens[1] = Browse THEN "browse" ELSE "execute"
    /\ UNCHANGED <<input, allow, at, reader>>

CommandNext ==
    \/ Escaped \/ Escape \/ Quoted \/ OpenQuote \/ Separate \/ Letter
    \/ EndOfSource \/ Run

CommandSpec == CommandInit /\ [][CommandNext]_commandVars

-----------------------------------------------------------------------------
(* What a source means, position by position. *)

source == input.source
Positions == DOMAIN source

\* Does the character at i stand for itself, after a backslash?
Literal[i \in 1..Len(source) + 1] ==
    i > 1 /\ source[i - 1] = Backslash /\ ~Literal[i - 1]
\* The quotation that position i is in.
In[i \in 1..Len(source) + 1] ==
    IF i = 1 THEN Nil
    ELSE LET before == source[i - 1]
         IN IF Literal[i - 1] \/ before \notin Quotes THEN In[i - 1]
            ELSE IF In[i - 1] = Nil THEN before
            ELSE IF In[i - 1] = before THEN Nil ELSE In[i - 1]

Separates(i) == source[i] = Space /\ ~Literal[i] /\ In[i] = Nil
IsSyntax(i)  == ~Literal[i] /\ \/ source[i] = Backslash
                               \/ source[i] \in Quotes /\ In[i] \in {Nil, source[i]}
Starts == {i \in Positions : ~Separates(i) /\ (i = 1 \/ Separates(i - 1))}

\* The characters of the word that starts at i, by their positions.
Word(i) ==
    {j \in Positions : i <= j /\ ~IsSyntax(j) /\ \A k \in i..j : ~Separates(k)}

\* The number of k in a set of numbers, and whether w has the characters at
\* the positions in set, in order.
Rank(set, k) == Cardinality({j \in set : j <= k})
Spells(w, set) ==
    /\ Len(w) = Cardinality(set)
    /\ \A k \in set : w[Rank(set, k)] = source[k]

-----------------------------------------------------------------------------
(* Properties *)

Characters == {source[i] : i \in Positions}

\* The tokens are the maximal stretches without an unquoted blank, in order,
\* less the quotes and backslashes that are syntax: quotations join what
\* stands next to them, and an empty quotation is a token.
TokensAreWords ==
    outcome = "tokens" =>
        /\ Len(tokens) = Cardinality(Starts)
        /\ \A i \in Starts : Spells(tokens[Rank(Starts, i)], Word(i))

\* The arguments a Python script passes to execute reach Redis as they are, if
\* they hold no backslash (inside single quotes shlex keeps it, tokenizeRedis
\* does not).
ArgumentsArrive ==
    input.words # Nil /\ outcome # "reading" =>
        tokens = input.words \/ Backslash \in Characters

\* What is run is the command that was written, by hand or by a script.
CommandIsRead == TokensAreWords /\ ArgumentsArrive

\* In read-only mode nothing is run whose first word, as it is meant, is not on
\* the allow-list, however it is quoted or escaped.
ReadOnly ==
    ~allow /\ outcome \in {"browse", "execute"} =>
        \E i \in Starts :
            /\ \A j \in Starts : i <= j
            /\ \E w \in ReadCommands : Spells(w, Word(i))
=============================================================================
