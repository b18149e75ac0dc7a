---------------------------- MODULE MCCrashReport ----------------------------
(* What watchdogs may find, for TLC: strings that end before, at and behind a page's
   end or the buffer's, or where nothing is mapped; extended states of several machines;
   exceptions of all kinds.  Two of the three are plain in each crash. *)
EXTENDS CrashReport

McTexts ==
    {[at |-> a, length |-> n, mapped |-> e] : a \in {4, 5, 7}, n \in {0, 2, 4, 5, 9}, e \in {4, 8, 12, 16}}
McText == [at |-> 5, length |-> 2, mapped |-> 8]
McJunkTexts == {NoText, McText, [at |-> 4, length |-> 2, mapped |-> 4]}

(* Seven features, of sizes that are no multiples of the alignment. *)
McFeatures == 2 .. 8
McSize == [f \in McFeatures |-> CASE f = 2 -> 3 [] f = 4 -> 1 [] f = 5 -> 6 [] OTHER -> 2]

McPlace(layout, aligned) ==
    LET Up(f, n) == IF f \in aligned THEN ((n + 3) \div 4) * 4 ELSE n
        end[f \in 1 .. 8] == IF f = 1 THEN 4
                             ELSE IF f \in layout THEN Up(f, end[f - 1]) + McSize[f]
                             ELSE end[f - 1]
    IN  [f \in layout |-> Up(f, end[f - 1])]

McArea(enabled, aligned, compacted, layout, saved, extended, shadow) ==
    [enabled |-> enabled, aligned |-> aligned, size |-> McSize,
     standard |-> [f \in McFeatures |-> 32 + 4 + 8 * (f - 2)],
     extended |-> extended, compacted |-> compacted, saved |-> saved, layout |-> layout,
     place |-> McPlace(layout, aligned), shadow |-> shadow]

McPlain == McArea({2}, {}, TRUE, {2}, {2}, TRUE, FALSE)
McAreas ==
    {McArea({2, 3, 4, 5, 7, 8}, aligned, TRUE, layout, layout, TRUE, TRUE) :
        aligned \in SUBSET {4, 5, 7, 8}, layout \in {{2, 3, 4, 5, 7, 8}, {2, 4, 7}, {5, 7, 8}, {2, 7}, {7}, {2, 5}}}
    \cup {McArea({2, 4, 5, 7}, {7}, compacted, {2, 4, 5, 7}, saved, extended, shadow) :
             compacted \in BOOLEAN, saved \in {{2, 4}, {2, 7}}, extended \in BOOLEAN,
             shadow \in BOOLEAN}
    \cup {McPlain, McArea({}, {}, FALSE, {}, {}, TRUE, FALSE)}
McJunkHeaders ==
    {[compacted |-> c, saved |-> s, layout |-> l] : c \in BOOLEAN, s \in {{}, McFeatures}, l \in {{}, McFeatures}}

McThrow(code, parameters, magic, throwInfo, base, array, object, types) ==
    [code |-> code, parameters |-> parameters, magic |-> magic, throwInfo |-> throwInfo,
     base |-> base, array |-> array, object |-> object, count |-> Len(types), types |-> types]
McThrown(object, types) == McThrow("msc", 4, TRUE, TRUE, TRUE, TRUE, object, types)
McOther == McThrow("other", 0, FALSE, FALSE, FALSE, FALSE, "none", <<>>)
McThrows ==
    {McThrown("exception", t) : t \in {<<>>, <<TRUE>>, <<TRUE, FALSE, TRUE>>, <<FALSE, TRUE, TRUE>>}}
    \cup {McThrown(o, <<TRUE, TRUE>>) : o \in {"other", "none"}}
    \cup {McThrow("msc", p, m, t, b, a, "exception", <<TRUE>>) :
             p \in 2 .. 4, m \in BOOLEAN, t \in BOOLEAN, b \in BOOLEAN, a \in BOOLEAN}
    \cup {[McThrown("exception", <<>>) EXCEPT !.count = -1], McOther}

McCrashes ==
    {[text |-> NoText, thrown |-> McOther, areas |-> a] : a \in McAreas}
    \cup {[text |-> McText, thrown |-> t, areas |-> McPlain] : t \in McThrows}
    \cup {[text |-> t, thrown |-> McThrown("exception", <<TRUE>>), areas |-> McPlain] :
             t \in McTexts \cup {NoText}}
==============================================================================
