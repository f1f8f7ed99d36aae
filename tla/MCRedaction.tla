------------------------------ MODULE MCRedaction ------------------------------
(* The texts, keys, values and patches that make the cases of the code happen. *)
EXTENDS Redaction

Word == <<"word">>
Space == <<"space">>
Secret == <<"openai">>
Flush == <<<<"aws">>, <<"openai">>>>
Pem == <<"pem">>
Token == <<"entropy">>
Sensitive == <<"sensitive">>
Big == <<"big">>

KeyOf(secret) == <<Placeholder(Kind(secret), <<secret>>)>>

Texts ==
  {<<Word>>, <<Secret>>, Flush, <<Token, Word>>, <<Pem, Token>>, <<Big>>, <<Big, Token>>,
   <<Word, <<"aws">>>>, <<<<"ref">>, Word>>, <<<<"literal">>, Word>>}

Inner ==
  {<<"list", <<<<"string", <<Big>>>>, <<"string", <<Space, <<"aws">>>>>>>>>>,
   <<"map", <<<<<<Sensitive>>, <<"string", <<Word>>>>>>>>>>,
   <<"bytes", <<Word, Secret>>>>}

MCEntry ==
  {<<<<Word>>, value>> : value \in {<<"string", text>> : text \in Texts} \cup Inner}
    \cup {<<<<Sensitive>>, <<"string", text>>>> : text \in {<<Word>>, <<Big>>}}
    \cup {<<key, <<"string", <<Word>>>>>> : key \in {<<Secret>>, <<Word, Space, Pem>>}}

Path(key) == <<<<"slash">>>> \o key

MCPatch ==
  {<<<<"add", Path(key), <<"string", text>>>>>> :
     key \in {<<Word>>, <<Sensitive>>}, text \in {<<Word>>, <<Secret>>, Flush}}
    \cup {<<<<"add", Path(<<Secret>>), <<"string", <<Big>>>>>>>>,
          <<<<"add", Path(<<Token>>), <<"string", <<<<"ref">>>>>>>>>>,
          <<<<"add", Path(<<Word, Space, Pem>>), <<"string", <<Word>>>>>>>>,
          <<<<"remove", Path(KeyOf(Secret))>>>>,
          <<<<"copy", Path(<<Sensitive>>), Path(<<Word>>)>>>>,
          <<<<"copy", Path(<<Word, Word>>), Path(<<Sensitive>>)>>,
            <<"remove", Path(<<Sensitive>>)>>>>}
===============================================================================
