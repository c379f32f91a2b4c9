-------------------------- MODULE MC_TemplateArms --------------------------
EXTENDS TemplateArms

Var(name) == [op |-> "var", of |-> name]
RoleIs(role) == [op |-> "==", l |-> Var("message.role"), r |-> [op |-> "literal", of |-> <<role>>]]
\* message.role == 'user';  loop.first or x;  add_generation_prompt and not loop.first
Conditions_MC ==
  {<< <<RoleIs("user")>> >>, << <<Var("loop.first")>>, <<Var("x")>> >>,
   << <<Var("add_generation_prompt"),
        [op |-> "!=", l |-> Var("loop.first"), r |-> [op |-> "literal", of |-> True]]>> >>}
Systems_MC == {<<>>, <<"system">>}
=============================================================================
