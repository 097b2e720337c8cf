----------------------- MODULE MCCompilationContext -----------------------
\* Two threads, a context object and the lazily created ones; two of the
\* six type classes and two of the four categories.
EXTENDS CompilationContext

MCDefaultTypes == <<"PrimitiveType", "StructType">>
MCDefaultCategories ==
  <<[id |-> "OUTPUT", order |-> -3, cfunc_params |-> <<"outputs", "output_ticked">>],
    [id |-> "STATE", order |-> -2, cfunc_params |-> <<"state">>]>>
MCExtensionCategory == [id |-> "SIGNAL", order |-> 0, cfunc_params |-> <<"inputs">>]
=============================================================================
